---- MODULE Spec2Model ----
(***************************************************************************)
(* A model of the terminal text editor in src/main.c: the row buffer with  *)
(* its chars/render pair, the cursor, the viewport, the prompt protocol    *)
(* and the key dispatch.  Bytes are integers 0..255; a row's chars and     *)
(* render are sequences of bytes (the C NUL terminator is not stored).     *)
(***************************************************************************)
EXTENDS Integers, Sequences, FiniteSets, TLC

(* ------------------------------ bounds -------------------------------- *)

\* The editing keys add no row and no byte to a buffer whose rows and bytes
\* together number MaxSize.
MaxSize == 4
\* The same bound where the prompts (save as, search) run as well.
MaxPromptSize == 3
MaxSaveSize == 2
MaxQuitSize == 2
MaxProcessSize == 2
\* The terminal shows s text rows of s columns, s in 1..MaxScreen.
MaxScreen == 2
\* A prompt accepts printable bytes while the query is shorter than MaxQuery.
MaxQuery == 1
\* The rows the row functions are tried on hold at most MaxRowLen bytes.
MaxRowLen == 3
\* Standard input holds at most MaxKeys keys, each of one to four bytes.
MaxKeys == 2
\* The clock runs from 0 to MaxTime seconds.
MaxTime == 6
\* With the clock running the buffer holds at most MaxClockSize bytes.
MaxClockSize == 1

(* ------------------------- program constants -------------------------- *)

EDITOR_TAB_STOP == 8
EDITOR_QUIT_TIMES == 3
\* sizeof(E.statusmsg)
STATUS_SIZE == 80

BACKSPACE == 127
ARROW_LEFT == 1000
ARROW_RIGHT == 1001
ARROW_UP == 1002
ARROW_DOWN == 1003
DEL_KEY == 1004
HOME_KEY == 1005
END_KEY == 1006
PAGE_UP == 1007
PAGE_DOWN == 1008

TAB == 9
LF == 10
CR == 13
ESC == 27
SPACE == 32
TILDE == 126
\* '0', '9', 'A', 'B', 'C', 'D', 'F', 'H', 'O', '['
DIGIT_0 == 48
DIGIT_9 == 57
UPPER_A == 65
UPPER_B == 66
UPPER_C == 67
UPPER_D == 68
UPPER_F == 70
UPPER_H == 72
UPPER_O == 79
LBRACKET == 91

\* The bytes typed: the letter 'a', and a byte above 127.
PrintableInput == {97}
HighInput == {200}
LETTER_A == CHOOSE b \in PrintableInput : TRUE
HighByte == CHOOSE b \in HighInput : TRUE

\* #define CTRL_KEY(k) ((k) & 0x1f)
CTRL_KEY(k) == k % 32

CTRL_Q == CTRL_KEY(113)
CTRL_S == CTRL_KEY(115)
CTRL_F == CTRL_KEY(102)
CTRL_H == CTRL_KEY(104)
CTRL_L == CTRL_KEY(108)

\* iscntrl() in the C locale
iscntrl(c) == (c >= 0 /\ c < 32) \/ c = 127

\* The byte a key value leaves in a char (conversion of int to char).
ByteOf(c) == c % 256

Min(a, b) == IF a < b THEN a ELSE b

(* --------------------------- row operations --------------------------- *)

\* row->chars[j]; chars[size] is the NUL that ends the string.
CharAt(chars, j) == IF j < Len(chars) THEN chars[j + 1] ELSE 0

RECURSIVE CxToRxLoop(_, _, _, _)
CxToRxLoop(chars, cx, j, rx) ==
    IF j >= cx THEN rx
    ELSE LET rx1 == IF CharAt(chars, j) = TAB
                    THEN rx + (EDITOR_TAB_STOP - 1) - (rx % EDITOR_TAB_STOP)
                    ELSE rx
         IN  CxToRxLoop(chars, cx, j + 1, rx1 + 1)

editorRowCxToRx(row, cx) == CxToRxLoop(row.chars, cx, 0, 0)

\* editorRowRxToCx that stops once cur_rx reaches rx (>= for >).
RECURSIVE RxToCxLoop_Reaches(_, _, _, _)
RxToCxLoop_Reaches(row, rx, cx, cur_rx) ==
    IF cx >= row.size THEN cx
    ELSE LET r1 == IF row.chars[cx + 1] = TAB
                   THEN cur_rx + (EDITOR_TAB_STOP - 1) - (cur_rx % EDITOR_TAB_STOP)
                   ELSE cur_rx
             r2 == r1 + 1
         IN  IF r2 >= rx THEN cx ELSE RxToCxLoop_Reaches(row, rx, cx + 1, r2)

editorRowRxToCx_Reaches(row, rx) == RxToCxLoop_Reaches(row, rx, 0, 0)

RECURSIVE RxToCxLoop(_, _, _, _)
RxToCxLoop(row, rx, cx, cur_rx) ==
    IF cx >= row.size THEN cx
    ELSE LET r1 == IF row.chars[cx + 1] = TAB
                   THEN cur_rx + (EDITOR_TAB_STOP - 1) - (cur_rx % EDITOR_TAB_STOP)
                   ELSE cur_rx
             r2 == r1 + 1
         IN  IF r2 > rx THEN cx ELSE RxToCxLoop(row, rx, cx + 1, r2)

editorRowRxToCx(row, rx) == RxToCxLoop(row, rx, 0, 0)

\* while (idx % EDITOR_TAB_STOP != 0) render[idx++] = ' ';
RECURSIVE PadToTabStop(_)
PadToTabStop(render) ==
    IF Len(render) % EDITOR_TAB_STOP # 0
    THEN PadToTabStop(Append(render, SPACE))
    ELSE render

RECURSIVE RenderLoop(_, _, _)
RenderLoop(row, j, render) ==
    IF j >= row.size THEN render
    ELSE IF row.chars[j + 1] = TAB
         THEN RenderLoop(row, j + 1, PadToTabStop(Append(render, SPACE)))
         ELSE RenderLoop(row, j + 1, Append(render, row.chars[j + 1]))

editorUpdateRow(row) ==
    LET render == RenderLoop(row, 0, <<>>)
    IN  [row EXCEPT !.render = render, !.rsize = Len(render)]

\* Rows are E.row[1..numrows]; the C index y is E.row[y + 1].
RowAt(e, y) == e.row[y + 1]

editorInsertRow(e, at, s) ==
    IF at < 0 \/ at > e.numrows THEN e
    ELSE LET new == editorUpdateRow([size |-> Len(s), rsize |-> 0,
                                     chars |-> s, render |-> <<>>])
         IN  [e EXCEPT !.row = SubSeq(e.row, 1, at) \o <<new>>
                                \o SubSeq(e.row, at + 1, e.numrows),
                       !.numrows = e.numrows + 1,
                       !.modified = 1]

editorDelRow(e, at) ==
    IF at < 0 \/ at >= e.numrows THEN e
    ELSE [e EXCEPT !.row = SubSeq(e.row, 1, at) \o SubSeq(e.row, at + 2, e.numrows),
                   !.numrows = e.numrows - 1,
                   !.modified = 1]

\* editorRowInsertChar that does not count the change in E.modified.
editorRowInsertChar_KeepsClean(e, y, at, c) ==
    LET row == RowAt(e, y)
        at1 == IF at < 0 \/ at > row.size THEN row.size ELSE at
        chars == SubSeq(row.chars, 1, at1) \o <<ByteOf(c)>>
                     \o SubSeq(row.chars, at1 + 1, row.size)
        new == editorUpdateRow([row EXCEPT !.chars = chars, !.size = row.size + 1])
    IN  [e EXCEPT !.row[y + 1] = new]

\* editorRowInsertChar(&E.row[y], at, c)
editorRowInsertChar(e, y, at, c) ==
    LET row == RowAt(e, y)
        at1 == IF at < 0 \/ at > row.size THEN row.size ELSE at
        chars == SubSeq(row.chars, 1, at1) \o <<ByteOf(c)>>
                     \o SubSeq(row.chars, at1 + 1, row.size)
        new == editorUpdateRow([row EXCEPT !.chars = chars, !.size = row.size + 1])
    IN  [e EXCEPT !.row[y + 1] = new, !.modified = 1]

\* editorRowDelChar without its editorUpdateRow: the render is left stale.
editorRowDelChar_NoUpdate(e, y, at) ==
    LET row == RowAt(e, y)
    IN  IF at < 0 \/ at >= row.size THEN e
        ELSE LET chars == SubSeq(row.chars, 1, at) \o SubSeq(row.chars, at + 2, row.size)
             IN  [e EXCEPT !.row[y + 1] = [row EXCEPT !.chars = chars,
                                                      !.size = row.size - 1],
                           !.modified = 1]

\* editorRowDelChar(&E.row[y], at)
editorRowDelChar(e, y, at) ==
    LET row == RowAt(e, y)
    IN  IF at < 0 \/ at >= row.size THEN e
        ELSE LET chars == SubSeq(row.chars, 1, at) \o SubSeq(row.chars, at + 2, row.size)
                 new == editorUpdateRow([row EXCEPT !.chars = chars,
                                                    !.size = row.size - 1])
             IN  [e EXCEPT !.row[y + 1] = new, !.modified = 1]

\* editorRowAppendString that copies s to the start of chars, not to its end.
editorRowAppendString_Overwrite(e, y, s) ==
    LET row == RowAt(e, y)
        kept == SubSeq(row.chars, Len(s) + 1, row.size)
        new == editorUpdateRow([row EXCEPT !.chars = s \o kept,
                                           !.size = Len(s) + Len(kept)])
    IN  [e EXCEPT !.row[y + 1] = new, !.modified = 1]

\* editorRowAppendString(&E.row[y], s, len)
editorRowAppendString(e, y, s) ==
    LET row == RowAt(e, y)
        new == editorUpdateRow([row EXCEPT !.chars = row.chars \o s,
                                           !.size = row.size + Len(s)])
    IN  [e EXCEPT !.row[y + 1] = new, !.modified = 1]

(* -------------------------- editor operations ------------------------- *)

\* editorInsertNewLine without the editorUpdateRow of the row it cuts.
editorInsertNewLine_NoUpdate(e) ==
    LET e1 == IF e.cx = 0
              THEN editorInsertRow(e, e.cy, <<>>)
              ELSE LET row == RowAt(e, e.cy)
                       e2 == editorInsertRow(e, e.cy + 1,
                                             SubSeq(row.chars, e.cx + 1, row.size))
                       cut == [RowAt(e2, e.cy) EXCEPT !.size = e.cx,
                                   !.chars = SubSeq(row.chars, 1, e.cx)]
                   IN  [e2 EXCEPT !.row[e.cy + 1] = cut]
    IN  [e1 EXCEPT !.cy = e.cy + 1, !.cx = 0]

\* editorInsertNewLine that inserts the rest of the row at cy, above the row
\* it cuts.
editorInsertNewLine_Above(e) ==
    LET e1 == IF e.cx = 0
              THEN editorInsertRow(e, e.cy, <<>>)
              ELSE LET row == RowAt(e, e.cy)
                       e2 == editorInsertRow(e, e.cy,
                                             SubSeq(row.chars, e.cx + 1, row.size))
                       cut == editorUpdateRow(
                                  [RowAt(e2, e.cy + 1) EXCEPT !.size = e.cx,
                                       !.chars = SubSeq(row.chars, 1, e.cx)])
                   IN  [e2 EXCEPT !.row[e.cy + 2] = cut]
    IN  [e1 EXCEPT !.cy = e.cy + 1, !.cx = 0]

editorInsertNewLine(e) ==
    LET e1 == IF e.cx = 0
              THEN editorInsertRow(e, e.cy, <<>>)
              ELSE LET row == RowAt(e, e.cy)
                       e2 == editorInsertRow(e, e.cy + 1,
                                             SubSeq(row.chars, e.cx + 1, row.size))
                       cut == editorUpdateRow(
                                  [RowAt(e2, e.cy) EXCEPT !.size = e.cx,
                                       !.chars = SubSeq(row.chars, 1, e.cx)])
                   IN  [e2 EXCEPT !.row[e.cy + 1] = cut]
    IN  [e1 EXCEPT !.cy = e.cy + 1, !.cx = 0]

editorInsertChar(e, c) ==
    LET e1 == IF e.cy = e.numrows THEN editorInsertRow(e, e.numrows, <<>>) ELSE e
        e2 == editorRowInsertChar(e1, e1.cy, e1.cx, c)
    IN  [e2 EXCEPT !.cx = e2.cx + 1]

\* editorDelChar that takes cx from row cy - 1 after the append, not before.
editorDelChar_CxAfterAppend(e) ==
    IF e.cy = e.numrows THEN e
    ELSE IF e.cx = 0 /\ e.cy = 0 THEN e
    ELSE IF e.cx > 0
         THEN LET e1 == editorRowDelChar(e, e.cy, e.cx - 1)
              IN  [e1 EXCEPT !.cx = e.cx - 1]
         ELSE LET row == RowAt(e, e.cy)
                  e2 == editorRowAppendString(e, e.cy - 1, row.chars)
                  e3 == editorDelRow(e2, e.cy)
              IN  [e3 EXCEPT !.cy = e.cy - 1, !.cx = RowAt(e2, e.cy - 1).size]

editorDelChar(e) ==
    IF e.cy = e.numrows THEN e
    ELSE IF e.cx = 0 /\ e.cy = 0 THEN e
    ELSE IF e.cx > 0
         THEN LET e1 == editorRowDelChar(e, e.cy, e.cx - 1)
              IN  [e1 EXCEPT !.cx = e.cx - 1]
         ELSE LET row == RowAt(e, e.cy)
                  e1 == [e EXCEPT !.cx = RowAt(e, e.cy - 1).size]
                  e2 == editorRowAppendString(e1, e.cy - 1, row.chars)
                  e3 == editorDelRow(e2, e.cy)
              IN  [e3 EXCEPT !.cy = e.cy - 1]

(* ------------------------------- find --------------------------------- *)

\* strstr(haystack, needle): the offset of the first occurrence, -1 for none.
IsAt(h, n, k) == \A i \in 1..Len(n) : h[k + i] = n[i]

StrStr(h, n) ==
    LET hits == {k \in 0..(Len(h) - Len(n)) : IsAt(h, n, k)}
    IN  IF hits = {} THEN -1 ELSE CHOOSE k \in hits : \A m \in hits : k <= m

\* A search that wraps from before the first row to the first row.
RECURSIVE FindLoop_WrapsToFirst(_, _, _, _)
FindLoop_WrapsToFirst(f, query, i, current) ==
    IF i >= f.E.numrows THEN f
    ELSE LET c1 == current + f.direction
             c2 == IF c1 = -1 THEN 0
                   ELSE IF c1 = f.E.numrows THEN 0 ELSE c1
             row == RowAt(f.E, c2)
             match == StrStr(row.render, query)
         IN  IF match # -1
             THEN [f EXCEPT !.last_match = c2,
                            !.E = [f.E EXCEPT !.cy = c2,
                                              !.cx = editorRowRxToCx(row, match),
                                              !.rowoff = f.E.numrows]]
             ELSE FindLoop_WrapsToFirst(f, query, i + 1, c2)

\* The for loop of editorFindCallback from probe i on; f holds E and the statics.
RECURSIVE FindLoop(_, _, _, _)
FindLoop(f, query, i, current) ==
    IF i >= f.E.numrows THEN f
    ELSE LET c1 == current + f.direction
             c2 == IF c1 = -1 THEN f.E.numrows - 1
                   ELSE IF c1 = f.E.numrows THEN 0 ELSE c1
             row == RowAt(f.E, c2)
             match == StrStr(row.render, query)
         IN  IF match # -1
             THEN [f EXCEPT !.last_match = c2,
                            !.E = [f.E EXCEPT !.cy = c2,
                                              !.cx = editorRowRxToCx(row, match),
                                              !.rowoff = f.E.numrows]]
             ELSE FindLoop(f, query, i + 1, c2)

editorFindCallback_WrapsToFirst(f, query, key) ==
    IF key = CR \/ key = ESC
    THEN [f EXCEPT !.last_match = -1, !.direction = 1]
    ELSE LET f1 == IF key = ARROW_RIGHT \/ key = ARROW_DOWN
                   THEN [f EXCEPT !.direction = 1]
                   ELSE IF key = ARROW_LEFT \/ key = ARROW_UP
                   THEN [f EXCEPT !.direction = -1]
                   ELSE [f EXCEPT !.last_match = -1, !.direction = 1]
             f2 == IF f1.last_match = -1 THEN [f1 EXCEPT !.direction = 1] ELSE f1
         IN  FindLoop_WrapsToFirst(f2, query, 0, f2.last_match)

\* The statics that keep the last match whatever the key.
FindStart_KeepsMatch(f, key) ==
    LET f1 == IF key = ARROW_RIGHT \/ key = ARROW_DOWN
              THEN [f EXCEPT !.direction = 1]
              ELSE IF key = ARROW_LEFT \/ key = ARROW_UP
              THEN [f EXCEPT !.direction = -1]
              ELSE [f EXCEPT !.direction = 1]
    IN  IF f1.last_match = -1 THEN [f1 EXCEPT !.direction = 1] ELSE f1

\* The statics of editorFindCallback as its loop starts, on a key other than
\* Enter and Escape.
FindStart(f, key) ==
    LET f1 == IF key = ARROW_RIGHT \/ key = ARROW_DOWN
              THEN [f EXCEPT !.direction = 1]
              ELSE IF key = ARROW_LEFT \/ key = ARROW_UP
              THEN [f EXCEPT !.direction = -1]
              ELSE [f EXCEPT !.last_match = -1, !.direction = 1]
    IN  IF f1.last_match = -1 THEN [f1 EXCEPT !.direction = 1] ELSE f1

\* A callback that keeps its statics when the prompt ends.
FindReset_KeepsStatics(f) == f

\* editorFindCallback on Enter or Escape: the statics go back to their
\* initial values.
FindReset(f) == [f EXCEPT !.last_match = -1, !.direction = 1]

\* f == [E, last_match, direction]
editorFindCallback(f, query, key) ==
    IF key = CR \/ key = ESC
    THEN FindReset(f)
    ELSE FindLoop(FindStart(f, key), query, 0, FindStart(f, key).last_match)

\* The rows the for loop of editorFindCallback probes from probe i on.
RECURSIVE FindProbes(_, _, _, _)
FindProbes(f, query, i, current) ==
    IF i >= f.E.numrows THEN 0
    ELSE LET c1 == current + f.direction
             c2 == IF c1 = -1 THEN f.E.numrows - 1
                   ELSE IF c1 = f.E.numrows THEN 0 ELSE c1
         IN  IF StrStr(RowAt(f.E, c2).render, query) # -1
             THEN 1
             ELSE 1 + FindProbes(f, query, i + 1, c2)

\* The rows one call of editorFindCallback probes.
CallbackProbes(f, query, key) ==
    IF key = CR \/ key = ESC THEN 0
    ELSE FindProbes(FindStart(f, key), query, 0, FindStart(f, key).last_match)

(* ------------------------------ output -------------------------------- *)

\* editorScroll with the lower row clamp one row short (cy - screenrows).
editorScroll_ShortClamp(e) ==
    LET rx == IF e.cy < e.numrows THEN editorRowCxToRx(RowAt(e, e.cy), e.cx) ELSE 0
        ro1 == IF e.cy < e.rowoff THEN e.cy ELSE e.rowoff
        ro2 == IF e.cy >= ro1 + e.screenrows THEN e.cy - e.screenrows ELSE ro1
        co1 == IF rx < e.coloff THEN rx ELSE e.coloff
        co2 == IF rx >= co1 + e.screencols THEN rx - e.screencols + 1 ELSE co1
    IN  [e EXCEPT !.rx = rx, !.rowoff = ro2, !.coloff = co2]

editorScroll(e) ==
    LET rx == IF e.cy < e.numrows THEN editorRowCxToRx(RowAt(e, e.cy), e.cx) ELSE 0
        ro1 == IF e.cy < e.rowoff THEN e.cy ELSE e.rowoff
        ro2 == IF e.cy >= ro1 + e.screenrows THEN e.cy - e.screenrows + 1 ELSE ro1
        co1 == IF rx < e.coloff THEN rx ELSE e.coloff
        co2 == IF rx >= co1 + e.screencols THEN rx - e.screencols + 1 ELSE co1
    IN  [e EXCEPT !.rx = rx, !.rowoff = ro2, !.coloff = co2]

\* strlen("simple text editor -- version 0.0.1")
WelcomeLen == 35

\* What editorDrawRows appends for screen row y, before the erase and CR LF.
DrawRow(e, y) ==
    LET filerow == y + e.rowoff
    IN  IF filerow >= e.numrows
        THEN IF e.numrows = 0 /\ y = e.screenrows \div 3
             THEN LET welcomelen == Min(WelcomeLen, e.screencols)
                      padding == (e.screencols - welcomelen) \div 2
                  IN  [kind |-> "welcome",
                       bytes |-> IF padding # 0
                                 THEN <<TILDE>> \o [i \in 1..(padding - 1) |-> SPACE]
                                 ELSE <<>>,
                       len |-> welcomelen]
             ELSE [kind |-> "filler", bytes |-> <<TILDE>>, len |-> 1]
        ELSE LET row == RowAt(e, filerow)
                 len0 == row.size - e.coloff
                 len1 == IF len0 < 0 THEN 0 ELSE len0
                 len == IF len1 > e.screencols THEN e.screencols ELSE len1
             IN  [kind |-> "text",
                  bytes |-> SubSeq(row.render, e.coloff + 1, e.coloff + len),
                  len |-> len]

editorDrawRows(e) == [y \in 0..(e.screenrows - 1) |-> DrawRow(e, y)]

Msg(text, arg) == [text |-> text, arg |-> arg]

VARIABLE now      \* what time(NULL) returns

\* editorSetStatusMessage(fmt, ...): the text, and the time it was set at.
editorSetStatusMessage(e, text, arg) ==
    [e EXCEPT !.statusmsg = Msg(text, arg), !.statusmsg_time = now]

\* The bytes %d prints for n >= 0.
RECURSIVE DecLen(_)
DecLen(n) == IF n < 10 THEN 1 ELSE 1 + DecLen(n \div 10)

\* The bytes the format of msg prints: the format strings of the calls of
\* editorSetStatusMessage, with %d a number and %s the prompt's buf (the text
\* of strerror is not modelled).
FormatLen(msg) ==
    CASE msg.text = "" -> 0
      [] msg.text = "HELP" -> 53
      [] msg.text = "Operation aborted" -> 17
      [] msg.text = "bytes written" -> 22 + DecLen(msg.arg[1])
      [] msg.text = "Can't save" -> 23 + Len(msg.arg)
      [] msg.text = "WARNING" -> 70 + DecLen(msg.arg[1])
      [] msg.text = "Save as" -> 25 + Len(msg.arg)
      [] msg.text = "Search" -> 31 + Len(msg.arg)

\* strlen(E.statusmsg): vsnprintf keeps what fits before the final NUL.
MsgLen(msg) == Min(FormatLen(msg), STATUS_SIZE - 1)

\* A message bar without text.
NoBar == [msg |-> Msg("", <<>>), len |-> 0]

\* A message bar that shows a message up to and including its fifth second.
editorDrawMessageBar_OneMore(e, t) ==
    LET msglen == IF MsgLen(e.statusmsg) > e.screencols
                  THEN e.screencols ELSE MsgLen(e.statusmsg)
    IN  IF msglen # 0 /\ t - e.statusmsg_time <= 5
        THEN [msg |-> e.statusmsg, len |-> msglen]
        ELSE NoBar

\* editorDrawMessageBar at time t: the message and how much of it is drawn.
editorDrawMessageBar(e, t) ==
    LET msglen == IF MsgLen(e.statusmsg) > e.screencols
                  THEN e.screencols ELSE MsgLen(e.statusmsg)
    IN  IF msglen # 0 /\ t - e.statusmsg_time < 5
        THEN [msg |-> e.statusmsg, len |-> msglen]
        ELSE NoBar

(* ------------------------------- input -------------------------------- *)

\* editorMoveCursor whose Left stays at column 0.
editorMoveCursor_NoLeftWrap(e, key) ==
    LET hasrow == e.cy < e.numrows
        e1 == IF key = ARROW_LEFT
              THEN IF e.cx # 0 THEN [e EXCEPT !.cx = e.cx - 1]
                   ELSE e
              ELSE IF key = ARROW_RIGHT
              THEN IF hasrow /\ e.cx < RowAt(e, e.cy).size
                   THEN [e EXCEPT !.cx = e.cx + 1]
                   ELSE IF hasrow /\ e.cx = RowAt(e, e.cy).size
                        THEN [e EXCEPT !.cy = e.cy + 1, !.cx = 0]
                        ELSE e
              ELSE IF key = ARROW_UP
              THEN IF e.cy # 0 THEN [e EXCEPT !.cy = e.cy - 1] ELSE e
              ELSE IF key = ARROW_DOWN
              THEN IF e.cy < e.numrows THEN [e EXCEPT !.cy = e.cy + 1] ELSE e
              ELSE e
        rowlen == IF e1.cy >= e1.numrows THEN 0 ELSE RowAt(e1, e1.cy).size
    IN  IF e1.cx > rowlen THEN [e1 EXCEPT !.cx = rowlen] ELSE e1

editorMoveCursor(e, key) ==
    LET hasrow == e.cy < e.numrows
        e1 == IF key = ARROW_LEFT
              THEN IF e.cx # 0 THEN [e EXCEPT !.cx = e.cx - 1]
                   ELSE IF e.cy > 0
                        THEN [e EXCEPT !.cy = e.cy - 1,
                                       !.cx = RowAt(e, e.cy - 1).size]
                        ELSE e
              ELSE IF key = ARROW_RIGHT
              THEN IF hasrow /\ e.cx < RowAt(e, e.cy).size
                   THEN [e EXCEPT !.cx = e.cx + 1]
                   ELSE IF hasrow /\ e.cx = RowAt(e, e.cy).size
                        THEN [e EXCEPT !.cy = e.cy + 1, !.cx = 0]
                        ELSE e
              ELSE IF key = ARROW_UP
              THEN IF e.cy # 0 THEN [e EXCEPT !.cy = e.cy - 1] ELSE e
              ELSE IF key = ARROW_DOWN
              THEN IF e.cy < e.numrows THEN [e EXCEPT !.cy = e.cy + 1] ELSE e
              ELSE e
        rowlen == IF e1.cy >= e1.numrows THEN 0 ELSE RowAt(e1, e1.cy).size
    IN  IF e1.cx > rowlen THEN [e1 EXCEPT !.cx = rowlen] ELSE e1

\* The loop run once less than asked.
RECURSIVE MoveTimes_OneLess(_, _, _)
MoveTimes_OneLess(e, key, times) ==
    IF times <= 1 THEN e
    ELSE MoveTimes_OneLess(editorMoveCursor(e, key), key, times - 1)

\* while (times--) editorMoveCursor(key);
RECURSIVE MoveTimes(_, _, _)
MoveTimes(e, key, times) ==
    IF times = 0 THEN e ELSE MoveTimes(editorMoveCursor(e, key), key, times - 1)

\* editorProcessKeypress whose default case inserts printable bytes only, as
\* editorPrompt does.
DispatchKey_PrintableOnly(e, c) ==
    IF c = CR THEN editorInsertNewLine(e)
    ELSE IF c = HOME_KEY THEN [e EXCEPT !.cx = 0]
    ELSE IF c = END_KEY
         THEN IF e.cy < e.numrows THEN [e EXCEPT !.cx = RowAt(e, e.cy).size] ELSE e
    ELSE IF c = BACKSPACE \/ c = CTRL_H \/ c = DEL_KEY
         THEN editorDelChar(IF c = DEL_KEY THEN editorMoveCursor(e, ARROW_RIGHT) ELSE e)
    ELSE IF c = PAGE_UP
         THEN MoveTimes([e EXCEPT !.cy = e.rowoff], ARROW_UP, e.screenrows)
    ELSE IF c = PAGE_DOWN
         THEN LET cy0 == e.rowoff + e.screenrows - 1
                  cy1 == IF cy0 > e.numrows THEN e.numrows ELSE cy0
              IN  MoveTimes([e EXCEPT !.cy = cy1], ARROW_DOWN, e.screenrows)
    ELSE IF c \in {ARROW_UP, ARROW_DOWN, ARROW_LEFT, ARROW_RIGHT}
         THEN editorMoveCursor(e, c)
    ELSE IF c = CTRL_L \/ c = ESC THEN e
    ELSE IF ~iscntrl(c) /\ c < 128 /\ c >= 0 THEN editorInsertChar(e, c)
    ELSE e

\* The cases of editorProcessKeypress that return without a prompt and without
\* ending the process.
DispatchKey(e, c) ==
    IF c = CR THEN editorInsertNewLine(e)
    ELSE IF c = HOME_KEY THEN [e EXCEPT !.cx = 0]
    ELSE IF c = END_KEY
         THEN IF e.cy < e.numrows THEN [e EXCEPT !.cx = RowAt(e, e.cy).size] ELSE e
    ELSE IF c = BACKSPACE \/ c = CTRL_H \/ c = DEL_KEY
         THEN editorDelChar(IF c = DEL_KEY THEN editorMoveCursor(e, ARROW_RIGHT) ELSE e)
    ELSE IF c = PAGE_UP
         THEN MoveTimes([e EXCEPT !.cy = e.rowoff], ARROW_UP, e.screenrows)
    ELSE IF c = PAGE_DOWN
         THEN LET cy0 == e.rowoff + e.screenrows - 1
                  cy1 == IF cy0 > e.numrows THEN e.numrows ELSE cy0
              IN  MoveTimes([e EXCEPT !.cy = cy1], ARROW_DOWN, e.screenrows)
    ELSE IF c \in {ARROW_UP, ARROW_DOWN, ARROW_LEFT, ARROW_RIGHT}
         THEN editorMoveCursor(e, c)
    ELSE IF c = CTRL_L \/ c = ESC THEN e
    ELSE editorInsertChar(e, c)

\* A read of standard input that returns 0: VMIN = 0 and VTIME = 1 make
\* read() give up after a tenth of a second without a byte.  In stdin it is
\* the entry NoByte; the end of stdin is no byte ever again.
NoByte == -1

\* read(STDIN_FILENO, &c, 1) == 1
Got(in) == in # <<>> /\ Head(in) # NoByte

\* What is left of stdin after one read.
AfterRead(in) == IF in = <<>> THEN in ELSE Tail(in)

\* The while loop of editorReadKey: reads until one returns a byte.
RECURSIVE WaitByte(_)
WaitByte(in) == IF in = <<>> \/ Head(in) # NoByte THEN in ELSE WaitByte(Tail(in))

\* The int a char holding byte b converts to, char being signed or not.
CharValue(b, signed) == IF signed /\ b >= 128 THEN b - 256 ELSE b

\* switch (seq[1]) after ESC [ and a '~' as the third byte
TildeKey(d) ==
    CASE d = DIGIT_0 + 1 -> HOME_KEY
      [] d = DIGIT_0 + 3 -> DEL_KEY
      [] d = DIGIT_0 + 4 -> END_KEY
      [] d = DIGIT_0 + 5 -> PAGE_UP
      [] d = DIGIT_0 + 6 -> PAGE_DOWN
      [] d = DIGIT_0 + 7 -> HOME_KEY
      [] d = DIGIT_0 + 8 -> END_KEY
      [] OTHER -> ESC

\* switch (seq[1]) after ESC [
BracketKey(l) ==
    CASE l = UPPER_A -> ARROW_UP
      [] l = UPPER_B -> ARROW_DOWN
      [] l = UPPER_C -> ARROW_RIGHT
      [] l = UPPER_D -> ARROW_LEFT
      [] l = UPPER_H -> HOME_KEY
      [] l = UPPER_F -> END_KEY
      [] OTHER -> ESC

\* switch (seq[1]) after ESC O
OKey(l) ==
    CASE l = UPPER_H -> HOME_KEY
      [] l = UPPER_F -> END_KEY
      [] OTHER -> ESC

\* editorReadKey() on the input in, a byte of which is to come: the key it
\* returns, the input it leaves, and the reads it made after the first byte.
editorReadKey(in, signed) ==
    LET c == Head(WaitByte(in))
        r0 == Tail(WaitByte(in))
        Result(k, rest, n) == [key |-> k, rest |-> rest, reads |-> n]
    IN  IF c # ESC THEN Result(CharValue(c, signed), r0, 0)
        ELSE IF ~Got(r0) THEN Result(ESC, AfterRead(r0), 1)
        ELSE LET seq0 == Head(r0)
                 r1 == Tail(r0)
             IN  IF ~Got(r1) THEN Result(ESC, AfterRead(r1), 2)
                 ELSE LET seq1 == Head(r1)
                          r2 == Tail(r1)
                      IN  IF seq0 = LBRACKET
                          THEN IF seq1 >= DIGIT_0 /\ seq1 <= DIGIT_9
                               THEN IF ~Got(r2) THEN Result(ESC, AfterRead(r2), 3)
                                    ELSE IF Head(r2) = TILDE
                                    THEN Result(TildeKey(seq1), Tail(r2), 3)
                                    ELSE Result(ESC, Tail(r2), 3)
                               ELSE Result(BracketKey(seq1), r2, 2)
                          ELSE IF seq0 = UPPER_O
                          THEN Result(OKey(seq1), r2, 2)
                          ELSE Result(ESC, r2, 2)

(* ------------------------------ file i/o ------------------------------ *)

\* getline(): the bytes of the next line of the stream, its LF included.
RECURSIVE GetLines(_)
GetLines(bytes) ==
    IF bytes = <<>> THEN <<>>
    ELSE LET ends == {k \in 1..Len(bytes) : bytes[k] = LF}
             n == IF ends = {} THEN Len(bytes)
                  ELSE CHOOSE k \in ends : \A m \in ends : k <= m
         IN  <<SubSeq(bytes, 1, n)>> \o GetLines(SubSeq(bytes, n + 1, Len(bytes)))

\* while (linelen > 0 && (line[linelen-1] == '\n' || line[linelen-1] == '\r')) linelen--;
RECURSIVE StripLineEnd(_)
StripLineEnd(line) ==
    IF Len(line) > 0 /\ (line[Len(line)] = LF \/ line[Len(line)] = CR)
    THEN StripLineEnd(SubSeq(line, 1, Len(line) - 1))
    ELSE line

RECURSIVE OpenLoop(_, _, _)
OpenLoop(e, lines, k) ==
    IF k > Len(lines) THEN e
    ELSE OpenLoop(editorInsertRow(e, e.numrows, StripLineEnd(lines[k])), lines, k + 1)

\* editorOpen when fopen succeeds on a file holding bytes.
editorOpen(e, filename, bytes) ==
    LET e1 == OpenLoop([e EXCEPT !.filename = filename], GetLines(bytes), 1)
    IN  [e1 EXCEPT !.modified = 0]

RECURSIVE RowsToStringLoop(_, _)
RowsToStringLoop(e, j) ==
    IF j >= e.numrows THEN <<>>
    ELSE RowAt(e, j).chars \o <<LF>> \o RowsToStringLoop(e, j + 1)

editorRowsToString(e) == RowsToStringLoop(e, 0)

\* editorSave from the serialization on; outcome is what open, ftruncate and
\* write do: write_fails is write returning -1, write_short is write returning
\* one byte less than asked.
SaveOutcomes == {"ok", "open_fails", "ftruncate_fails", "write_fails", "write_short"}

\* editorSave that clears the modified flag whether the write succeeds or not.
SaveWrite_AlwaysClears(e, outcome) ==
    LET buf == editorRowsToString(e)
    IN  IF outcome = "ok"
        THEN editorSetStatusMessage([e EXCEPT !.modified = 0], "bytes written", <<Len(buf)>>)
        ELSE editorSetStatusMessage([e EXCEPT !.modified = 0], "Can't save", <<>>)

SaveWrite(e, outcome) ==
    LET buf == editorRowsToString(e)
    IN  IF outcome = "ok"
        THEN editorSetStatusMessage([e EXCEPT !.modified = 0], "bytes written", <<Len(buf)>>)
        ELSE editorSetStatusMessage(e, "Can't save", <<>>)

\* The byte ftruncate pads a file with.
NUL == 0

\* A file system without files.
NoFiles == <<>>

\* ftruncate(fd, len) on a file holding content.
Ftruncate(content, len) ==
    [i \in 1..len |-> IF i <= Len(content) THEN content[i] ELSE NUL]

\* write(fd, buf, n) at offset 0 of a file holding content, n bytes written.
Write(content, bytes, n) ==
    [i \in 1..(IF n > Len(content) THEN n ELSE Len(content)) |->
        IF i <= n THEN bytes[i] ELSE content[i]]

\* A short write needs a byte to leave out.
SavePossible(e, outcome) ==
    outcome = "write_short" => Len(editorRowsToString(e)) > 0

\* The file system d after editorSave's open(O_RDWR | O_CREAT), ftruncate and
\* write on E.filename.
SaveDisk(d, e, outcome) ==
    LET name == e.filename
        bytes == editorRowsToString(e)
        len == Len(bytes)
        opened == IF name \in DOMAIN d THEN d[name] ELSE <<>>
        cut == Ftruncate(opened, len)
    IN  IF outcome = "open_fails" THEN d
        ELSE IF outcome = "ftruncate_fails" THEN (name :> opened) @@ d
        ELSE IF outcome = "write_fails" THEN (name :> cut) @@ d
        ELSE IF outcome = "write_short" THEN (name :> Write(cut, bytes, len - 1)) @@ d
        ELSE (name :> Write(cut, bytes, len)) @@ d

(* ------------------------------- state -------------------------------- *)

RECURSIVE SeqsUpTo(_, _)
SeqsUpTo(S, n) ==
    IF n = 0 THEN {<<>>}
    ELSE LET shorter == SeqsUpTo(S, n - 1)
         IN  shorter \cup {Append(q, b) : q \in {r \in shorter : Len(r) = n - 1}, b \in S}

\* The files given on the command line: empty, one line without its newline,
\* a CR LF line before a line with a tab, and a line with a CR inside.
Files == {<<>>, <<LETTER_A>>, <<TAB, CR, LF, LETTER_A, TAB, LF>>,
          <<LETTER_A, CR, TAB, LF, LF>>}
\* argv[1]
FileName == <<LETTER_A>>

VARIABLES
    E,            \* struct editorConfig E
    pc,           \* where the process is: "start", "init", "open", "refresh",
                  \* "key", "prompt_refresh", "prompt_key", "exit", "undefined",
                  \* and "rows", "read" where a function is run on its own
    prompt,       \* which prompt editorPrompt runs: "none", "save", "find"
    buf,          \* editorPrompt's buf
    saved,        \* editorFind's saved_cx, saved_cy, saved_coloff, saved_rowoff
    last_match,   \* static of editorFindCallback
    direction,    \* static of editorFindCallback
    quit_times,   \* static of editorProcessKeypress
    exit_status,  \* the status the process ended with, -1 while it runs
    disk,         \* the files of the file system: name -> bytes
    term,         \* the attributes of the terminal: "orig" or "raw"
    atexit_hook,  \* atexit(disableRawMode) has been called
    stdin,        \* what the reads of standard input will return, in order
    keypress      \* what editorReadKey returned last

vars == <<E, pc, prompt, buf, saved, last_match, direction, quit_times, exit_status,
          disk, term, atexit_hook, stdin, keypress, now>>

\* What the editor shares with its environment, and the key it has read.
env == <<disk, term, atexit_hook, stdin, keypress, now>>

NULL == <<>>

NoSaved == [cx |-> 0, cy |-> 0, coloff |-> 0, rowoff |-> 0]

\* E after initEditor on a terminal of screenrows + 2 rows and screencols columns.
initEditor(screenrows, screencols) ==
    [cx |-> 0, cy |-> 0, rx |-> 0, rowoff |-> 0, coloff |-> 0,
     screenrows |-> screenrows, screencols |-> screencols,
     numrows |-> 0, row |-> <<>>, modified |-> 0, filename |-> NULL,
     statusmsg |-> Msg("", <<>>), statusmsg_time |-> 0]

\* The file system the editor starts on: argv[1] names no file, or one of Files.
Disks == {NoFiles} \cup {FileName :> bytes : bytes \in Files}

\* The editor once enableRawMode and initEditor are done.
InitWith(sizes) ==
    /\ E \in {initEditor(sz[1], sz[2]) : sz \in sizes}
    /\ pc = "open"
    /\ prompt = "none"
    /\ buf = <<>>
    /\ saved = NoSaved
    /\ last_match = -1
    /\ direction = 1
    /\ quit_times = EDITOR_QUIT_TIMES
    /\ exit_status = -1
    /\ disk \in Disks
    /\ term = "raw"
    /\ atexit_hook = TRUE
    /\ stdin = <<>> /\ keypress = NUL /\ now = 0

ScreenSizes == {<<s, s>> : s \in 1..MaxScreen}

Init == InitWith(ScreenSizes)

(* ------------------------------ inputs -------------------------------- *)

NavKeys == {ARROW_LEFT, ARROW_RIGHT, ARROW_UP, ARROW_DOWN,
            HOME_KEY, END_KEY, PAGE_UP, PAGE_DOWN}
EditKeys == {CR, BACKSPACE, CTRL_H, DEL_KEY, CTRL_L, ESC}
CommandKeys == {CTRL_Q, CTRL_S, CTRL_F}
\* Bytes typed into the text: a tab and a letter.
TypedKeys == {TAB, LETTER_A}

RECURSIVE TotalChars(_, _)
TotalChars(e, j) == IF j >= e.numrows THEN 0 ELSE RowAt(e, j).size + TotalChars(e, j + 1)

\* The bound on the size of the buffer.
InsertsRow(e, c) ==
    \/ c = CR
    \/ c \notin (NavKeys \cup EditKeys \cup CommandKeys) /\ e.cy = e.numrows
InsertsByte(c) == c \notin (NavKeys \cup EditKeys \cup CommandKeys)

BufferSize(e) == e.numrows + TotalChars(e, 0)

WithinBounds(e, c, max) ==
    LET more == (IF InsertsRow(e, c) THEN 1 ELSE 0) + (IF InsertsByte(c) THEN 1 ELSE 0)
    IN  more > 0 => BufferSize(e) + more <= max

\* Key c makes editorProcessKeypress read E.row[y] for a y that is no row, or
\* bytes past a row's end: the behaviour of the C program is undefined.
Undefined(e, c) ==
    LET rowlen == IF e.cy < e.numrows THEN RowAt(e, e.cy).size ELSE 0
    IN  \/ c = CR /\ e.cx # 0 /\ (e.cy >= e.numrows \/ e.cx > rowlen)
        \/ c \in {BACKSPACE, CTRL_H, DEL_KEY} /\ e.cy > e.numrows
        \/ c = ARROW_LEFT /\ e.cx = 0 /\ e.cy > e.numrows
        \/ c \notin (NavKeys \cup EditKeys \cup CommandKeys) /\ e.cy > e.numrows

\* editorScroll reads row cy up to cx: defined up to the NUL at chars[size].
ScrollDefined(e) == e.cy < e.numrows => e.cx <= RowAt(e, e.cy).size + 1

(* ------------------------------ actions ------------------------------- *)

\* exit that ends the process without running the registered function.
Exit_NoHook(status) ==
    /\ pc' = "exit"
    /\ exit_status' = status
    /\ UNCHANGED term

\* exit(status): the function registered by atexit runs, then the process
\* ends. disableRawMode sets the terminal back to orig_termios; when that
\* tcsetattr fails it calls die, which calls exit from inside exit: undefined.
Exit(status) ==
    IF atexit_hook
    THEN \/ /\ term' = "orig"
            /\ pc' = "exit"
            /\ exit_status' = status
         \/ /\ pc' = "undefined"
            /\ UNCHANGED <<term, exit_status>>
    ELSE /\ pc' = "exit"
         /\ exit_status' = status
         /\ UNCHANGED term

\* main(): no file argument; these runs start on a file system without files.
StartEmpty ==
    /\ pc = "open"
    /\ disk = NoFiles
    /\ E' = editorSetStatusMessage(E, "HELP", <<>>)
    /\ pc' = "refresh"
    /\ UNCHANGED <<prompt, buf, saved, last_match, direction, quit_times, exit_status>>
    /\ UNCHANGED env

\* main(): editorOpen(argv[1]) on a file that opens.
StartOpen ==
    /\ pc = "open"
    /\ FileName \in DOMAIN disk
    /\ E' = editorSetStatusMessage(editorOpen(E, FileName, disk[FileName]), "HELP", <<>>)
    /\ pc' = "refresh"
    /\ UNCHANGED <<prompt, buf, saved, last_match, direction, quit_times, exit_status>>
    /\ UNCHANGED env

\* main(): editorOpen(argv[1]) where fopen fails: die("fopen").
StartOpenFails ==
    /\ pc = "open"
    /\ FileName \notin DOMAIN disk
    /\ E' = [E EXCEPT !.filename = FileName]
    /\ Exit(1)
    /\ UNCHANGED <<prompt, buf, saved, last_match, direction, quit_times>>
    /\ UNCHANGED <<disk, atexit_hook, stdin, keypress, now>>

\* The main loop's editorRefreshScreen.
Refresh ==
    /\ pc = "refresh"
    /\ ScrollDefined(E)
    /\ E' = editorScroll(E)
    /\ pc' = "key"
    /\ UNCHANGED <<prompt, buf, saved, last_match, direction, quit_times, exit_status>>
    /\ UNCHANGED env

\* A key dispatch that leaves the quit counter as it is.
KeyDispatch_NoReset(K, max) ==
    /\ pc = "key"
    /\ \E c \in K \ CommandKeys :
           /\ ~Undefined(E, c)
           /\ WithinBounds(E, c, max)
           /\ E' = DispatchKey(E, c)
    /\ pc' = "refresh"
    /\ UNCHANGED <<prompt, buf, saved, last_match, direction, exit_status, quit_times>>
    /\ UNCHANGED env

\* editorProcessKeypress on a key other than quit, save and find.
KeyDispatch(K, max) ==
    /\ pc = "key"
    /\ \E c \in K \ CommandKeys :
           /\ ~Undefined(E, c)
           /\ WithinBounds(E, c, max)
           /\ E' = DispatchKey(E, c)
    /\ quit_times' = EDITOR_QUIT_TIMES
    /\ pc' = "refresh"
    /\ UNCHANGED <<prompt, buf, saved, last_match, direction, exit_status>>
    /\ UNCHANGED env

\* editorProcessKeypress on Ctrl-Q with unsaved changes and presses left.
KeyQuitWarn ==
    /\ pc = "key"
    /\ E.modified # 0 /\ quit_times > 0
    /\ E' = editorSetStatusMessage(E, "WARNING", <<quit_times>>)
    /\ quit_times' = quit_times - 1
    /\ pc' = "refresh"
    /\ UNCHANGED <<prompt, buf, saved, last_match, direction, exit_status>>
    /\ UNCHANGED env

\* A quit command that ends the process whatever the buffer and the counter.
KeyQuitExit_Unguarded ==
    /\ pc = "key"
    /\ Exit(0)
    /\ UNCHANGED <<E, prompt, buf, saved, last_match, direction, quit_times>>
    /\ UNCHANGED <<disk, atexit_hook, stdin, keypress, now>>

\* editorProcessKeypress on Ctrl-Q: exit(0).
KeyQuitExit ==
    /\ pc = "key"
    /\ ~(E.modified # 0 /\ quit_times > 0)
    /\ Exit(0)
    /\ UNCHANGED <<E, prompt, buf, saved, last_match, direction, quit_times>>
    /\ UNCHANGED <<disk, atexit_hook, stdin, keypress, now>>

\* editorProcessKeypress on Ctrl-S with a filename: editorSave.
KeySaveWith(outcome) ==
    /\ pc = "key"
    /\ E.filename # NULL
    /\ SavePossible(E, outcome)
    /\ E' = SaveWrite(E, outcome)
    /\ disk' = SaveDisk(disk, E, outcome)
    /\ quit_times' = EDITOR_QUIT_TIMES
    /\ pc' = "refresh"
    /\ UNCHANGED <<prompt, buf, saved, last_match, direction, exit_status>>
    /\ UNCHANGED <<term, atexit_hook, stdin, keypress, now>>

KeySave == \E outcome \in SaveOutcomes : KeySaveWith(outcome)

\* editorProcessKeypress on Ctrl-S without a filename: editorSave enters
\* editorPrompt("Save as: %s (ESC to cancel)", NULL).
KeySaveAs ==
    /\ pc = "key"
    /\ E.filename = NULL
    /\ prompt' = "save"
    /\ buf' = <<>>
    /\ pc' = "prompt_refresh"
    /\ UNCHANGED <<E, saved, last_match, direction, quit_times, exit_status>>
    /\ UNCHANGED env

\* editorProcessKeypress on Ctrl-F: editorFind saves the cursor and the
\* offsets and enters editorPrompt("Search: %s ...", editorFindCallback).
KeyFind ==
    /\ pc = "key"
    /\ saved' = [cx |-> E.cx, cy |-> E.cy, coloff |-> E.coloff, rowoff |-> E.rowoff]
    /\ prompt' = "find"
    /\ buf' = <<>>
    /\ pc' = "prompt_refresh"
    /\ UNCHANGED <<E, last_match, direction, quit_times, exit_status>>
    /\ UNCHANGED env

\* editorPrompt: editorSetStatusMessage(prompt, buf); editorRefreshScreen().
PromptRefresh ==
    /\ pc = "prompt_refresh"
    /\ E' = editorScroll(editorSetStatusMessage(E,
                 IF prompt = "save" THEN "Save as" ELSE "Search", buf))
    /\ pc' = "prompt_key"
    /\ UNCHANGED <<prompt, buf, saved, last_match, direction, quit_times, exit_status>>
    /\ UNCHANGED env

\* callback(buf, c) of editorPrompt: NULL for the save prompt.
Callback(f, query, c) ==
    IF prompt = "find" THEN editorFindCallback(f, query, c) ELSE f

\* What iscntrl(c) can return: c must be an unsigned char value or EOF, and
\* anything else is undefined.
IscntrlOutcomes(c) == IF c \in -1..255 THEN {iscntrl(c)} ELSE BOOLEAN

\* One pass of the loop of editorPrompt on key c with the query b, ctl being
\* what iscntrl(c) returned: the new query, what the function returns ("none"
\* when the loop goes on) and the callback sites the pass goes through.
editorPromptKey(b, c, ctl) ==
    IF c = DEL_KEY \/ c = CTRL_H \/ c = BACKSPACE
    THEN [buf |-> IF Len(b) # 0 THEN SubSeq(b, 1, Len(b) - 1) ELSE b,
          returns |-> "none", calls |-> 1]
    ELSE IF c = ESC
    THEN [buf |-> b, returns |-> "NULL", calls |-> 1]
    ELSE IF c = CR
    THEN IF Len(b) # 0
         THEN [buf |-> b, returns |-> "buf", calls |-> 1]
         ELSE [buf |-> b, returns |-> "none", calls |-> 1]
    ELSE IF ~ctl /\ c < 128
    THEN [buf |-> Append(b, ByteOf(c)), returns |-> "none", calls |-> 1]
    ELSE [buf |-> b, returns |-> "none", calls |-> 1]

\* The query after editorPrompt has handled key c.
PromptBuf(c) == editorPromptKey(buf, c, iscntrl(c)).buf

PromptAppends(c) ==
    /\ ~(c = DEL_KEY \/ c = CTRL_H \/ c = BACKSPACE \/ c = ESC \/ c = CR)
    /\ ~iscntrl(c) /\ c < 128

\* editorPrompt reads a key that keeps the prompt open.
PromptKey(K) ==
    /\ pc = "prompt_key"
    /\ \E c \in K :
           /\ c # ESC
           /\ c = CR => Len(buf) = 0
           /\ PromptAppends(c) => Len(buf) < MaxQuery
           /\ buf' = PromptBuf(c)
           /\ LET f == Callback([E |-> E, last_match |-> last_match,
                                 direction |-> direction], buf', c)
              IN  /\ E' = f.E
                  /\ last_match' = f.last_match
                  /\ direction' = f.direction
    /\ pc' = "prompt_refresh"
    /\ UNCHANGED <<prompt, saved, quit_times, exit_status>>
    /\ UNCHANGED env

\* A cancelled find that puts the cursor back but not the scroll offsets.
PromptEndFindWith_KeepsScroll(c) ==
    /\ pc = "prompt_key"
    /\ prompt = "find"
    /\ c = CR => Len(buf) # 0
    /\ LET f == editorFindCallback(
                    [E |-> editorSetStatusMessage(E, "", <<>>),
                     last_match |-> last_match, direction |-> direction],
                    buf, c)
       IN  /\ E' = IF c = CR THEN f.E
                   ELSE [f.E EXCEPT !.cx = saved.cx, !.cy = saved.cy]
           /\ last_match' = f.last_match
           /\ direction' = f.direction
    /\ prompt' = "none"
    /\ buf' = <<>>
    /\ saved' = NoSaved
    /\ quit_times' = EDITOR_QUIT_TIMES
    /\ pc' = "refresh"
    /\ UNCHANGED exit_status
    /\ UNCHANGED env

\* editorPrompt reads c, Escape or Enter on a query that is not empty, in the
\* search prompt; editorFind restores the cursor on NULL and the key dispatch ends.
PromptEndFindWith(c) ==
    /\ pc = "prompt_key"
    /\ prompt = "find"
    /\ c = CR => Len(buf) # 0
    /\ LET f == editorFindCallback(
                    [E |-> editorSetStatusMessage(E, "", <<>>),
                     last_match |-> last_match, direction |-> direction],
                    buf, c)
       IN  /\ E' = IF c = CR THEN f.E
                   ELSE [f.E EXCEPT !.cx = saved.cx, !.cy = saved.cy,
                                    !.coloff = saved.coloff,
                                    !.rowoff = saved.rowoff]
           /\ last_match' = f.last_match
           /\ direction' = f.direction
    /\ prompt' = "none"
    /\ buf' = <<>>
    /\ saved' = NoSaved
    /\ quit_times' = EDITOR_QUIT_TIMES
    /\ pc' = "refresh"
    /\ UNCHANGED exit_status
    /\ UNCHANGED env

PromptEndFind == \E c \in {ESC, CR} : PromptEndFindWith(c)

\* An Escape in the save prompt that hands the typed name to editorSave.
PromptEndSaveAbort_KeepsName ==
    /\ pc = "prompt_key"
    /\ prompt = "save"
    /\ E' = editorSetStatusMessage([E EXCEPT !.filename = buf], "Operation aborted", <<>>)
    /\ prompt' = "none"
    /\ buf' = <<>>
    /\ quit_times' = EDITOR_QUIT_TIMES
    /\ pc' = "refresh"
    /\ UNCHANGED <<saved, last_match, direction, exit_status>>
    /\ UNCHANGED env

\* editorPrompt reads Escape in the save prompt: editorSave reports the abort.
PromptEndSaveAbort ==
    /\ pc = "prompt_key"
    /\ prompt = "save"
    /\ E' = editorSetStatusMessage(E, "Operation aborted", <<>>)
    /\ prompt' = "none"
    /\ buf' = <<>>
    /\ quit_times' = EDITOR_QUIT_TIMES
    /\ pc' = "refresh"
    /\ UNCHANGED <<saved, last_match, direction, exit_status>>
    /\ UNCHANGED env

\* editorPrompt reads Enter on a query that is not empty in the save prompt:
\* editorSave takes it as the filename and writes.
PromptEndSaveAsWith(outcome) ==
    /\ pc = "prompt_key"
    /\ prompt = "save"
    /\ Len(buf) # 0
    /\ LET e == [E EXCEPT !.filename = buf]
       IN  /\ SavePossible(e, outcome)
           /\ E' = SaveWrite(e, outcome)
           /\ disk' = SaveDisk(disk, e, outcome)
    /\ prompt' = "none"
    /\ buf' = <<>>
    /\ quit_times' = EDITOR_QUIT_TIMES
    /\ pc' = "refresh"
    /\ UNCHANGED <<saved, last_match, direction, exit_status>>
    /\ UNCHANGED <<term, atexit_hook, stdin, keypress, now>>

PromptEndSaveAs == \E outcome \in SaveOutcomes : PromptEndSaveAsWith(outcome)

AllKeys == NavKeys \cup EditKeys \cup CommandKeys \cup TypedKeys

\* The editor without its prompts: startup, the main loop, every key but
\* save and find.
Next ==
    \/ StartEmpty
    \/ StartOpen
    \/ StartOpenFails
    \/ Refresh
    \/ KeyDispatch(AllKeys, MaxSize)
    \/ KeyQuitExit

Spec == Init /\ [][Next]_vars

\* The editor with find and its prompt.
NextPrompts ==
    \/ StartEmpty
    \/ StartOpen
    \/ StartOpenFails
    \/ Refresh
    \/ KeyDispatch(AllKeys, MaxPromptSize)
    \/ KeyQuitExit
    \/ KeyFind
    \/ PromptRefresh
    \/ PromptKey(AllKeys)
    \/ PromptEndFind

SpecPrompts == Init /\ [][NextPrompts]_vars

\* The editor with save and its prompt.
NextSave ==
    \/ StartEmpty
    \/ StartOpen
    \/ StartOpenFails
    \/ Refresh
    \/ KeyDispatch(AllKeys, MaxSaveSize)
    \/ KeyQuitExit
    \/ KeySave
    \/ KeySaveAs
    \/ PromptRefresh
    \/ PromptKey(AllKeys)
    \/ PromptEndSaveAbort
    \/ PromptEndSaveAs

SpecSave == Init /\ [][NextSave]_vars

(* --------------------- the quit command and its guard ----------------- *)

\* The editor with all its commands, the quit command and its warnings
\* included, on small buffers.
\* The keys pressed between quit presses: one that moves the cursor, Enter,
\* Backspace, a letter and Escape.
QuitKeys == {ARROW_DOWN, CR, BACKSPACE, LETTER_A, ESC}

NextQuit ==
    \/ StartEmpty
    \/ StartOpen
    \/ StartOpenFails
    \/ Refresh
    \/ KeyDispatch(QuitKeys, MaxQuitSize)
    \/ KeyQuitWarn
    \/ KeyQuitExit
    \/ KeySave
    \/ KeySaveAs
    \/ KeyFind
    \/ PromptRefresh
    \/ PromptKey(QuitKeys)
    \/ PromptEndFind
    \/ PromptEndSaveAbort
    \/ PromptEndSaveAs

SpecQuit == Init /\ [][NextQuit]_vars

(* ------------------------- the search on its own --------------------- *)

\* Files to search: rows "a", TAB "a", "" and "a a"; rows " a" and "a"; no row.
FindFiles == {<<LETTER_A, LF, TAB, LETTER_A, LF, LF, LETTER_A, SPACE, LETTER_A, LF>>,
              <<SPACE, LETTER_A, LF, LETTER_A, LF>>,
              <<>>}

InitFind ==
    /\ E \in {initEditor(sz[1], sz[2]) : sz \in ScreenSizes}
    /\ pc = "open"
    /\ prompt = "none"
    /\ buf = <<>>
    /\ saved = NoSaved
    /\ last_match = -1
    /\ direction = 1
    /\ quit_times = EDITOR_QUIT_TIMES
    /\ exit_status = -1
    /\ disk \in {FileName :> bytes : bytes \in FindFiles}
    /\ term = "raw"
    /\ atexit_hook = TRUE
    /\ stdin = <<>> /\ keypress = NUL /\ now = 0

\* The keys that place the cursor before a search.
MoveKeys == {ARROW_DOWN, END_KEY}

\* The keys of a search: the four arrows, a letter and a space to type,
\* Backspace, Enter and Escape.
FindKeys == {ARROW_LEFT, ARROW_RIGHT, ARROW_UP, ARROW_DOWN,
             LETTER_A, SPACE, BACKSPACE, CR, ESC}

NextFind ==
    \/ StartOpen
    \/ Refresh
    \/ KeyDispatch(MoveKeys, MaxSize)
    \/ KeyFind
    \/ PromptRefresh
    \/ PromptKey(FindKeys)
    \/ PromptEndFind

SpecFind == InitFind /\ [][NextFind]_vars

(* ------------------------- paging on its own -------------------------- *)

\* Files to page through: rows "a", "", "", "a"; rows "aa", "a", "", "a".
PageFiles == {<<LETTER_A, LF, LF, LF, LETTER_A, LF>>,
              <<LETTER_A, LETTER_A, LF, LETTER_A, LF, LF, LETTER_A, LF>>}

InitPage ==
    /\ E \in {initEditor(sz[1], sz[2]) : sz \in ScreenSizes}
    /\ pc = "open"
    /\ prompt = "none"
    /\ buf = <<>>
    /\ saved = NoSaved
    /\ last_match = -1
    /\ direction = 1
    /\ quit_times = EDITOR_QUIT_TIMES
    /\ exit_status = -1
    /\ disk \in {FileName :> bytes : bytes \in PageFiles}
    /\ term = "raw"
    /\ atexit_hook = TRUE
    /\ stdin = <<>> /\ keypress = NUL /\ now = 0

NextPage ==
    \/ StartOpen
    \/ Refresh
    \/ KeyDispatch(NavKeys, MaxSize)

SpecPage == InitPage /\ [][NextPage]_vars

(* ------------------------ the process from main on -------------------- *)

\* E is in static storage: all zero before initEditor.
ZeroE == initEditor(0, 0)

\* The process at the start of main: the terminal as the shell left it.
InitProcess ==
    /\ E = ZeroE
    /\ pc = "start"
    /\ prompt = "none"
    /\ buf = <<>>
    /\ saved = NoSaved
    /\ last_match = -1
    /\ direction = 1
    /\ quit_times = EDITOR_QUIT_TIMES
    /\ exit_status = -1
    /\ disk \in Disks
    /\ term = "orig"
    /\ atexit_hook = FALSE
    /\ stdin = <<>> /\ keypress = NUL /\ now = 0

\* enableRawMode: tcgetattr fails, die("tcgetattr").
TcgetattrFails ==
    /\ pc = "start"
    /\ Exit(1)
    /\ UNCHANGED <<E, prompt, buf, saved, last_match, direction, quit_times>>
    /\ UNCHANGED <<disk, atexit_hook, stdin, keypress, now>>

\* enableRawMode past tcgetattr: atexit(disableRawMode), then tcsetattr with
\* the raw attributes, whose result is not looked at.
EnableRawMode ==
    /\ pc = "start"
    /\ atexit_hook' = TRUE
    /\ \E tcsetattr_ok \in BOOLEAN : term' = IF tcsetattr_ok THEN "raw" ELSE term
    /\ pc' = "init"
    /\ UNCHANGED <<E, prompt, buf, saved, last_match, direction, quit_times,
                   exit_status, disk, stdin, keypress, now>>

\* getWindowSize: the ioctl, or else the cursor position report, or neither.
WindowSizeOutcomes == {"ioctl", "cursor_position", "fails"}

\* initEditor on a terminal whose size is found.
InitEditorOk ==
    /\ pc = "init"
    /\ \E outcome \in WindowSizeOutcomes \ {"fails"}, sz \in ScreenSizes :
           E' = initEditor(sz[1], sz[2])
    /\ pc' = "open"
    /\ UNCHANGED <<prompt, buf, saved, last_match, direction, quit_times, exit_status>>
    /\ UNCHANGED env

\* initEditor: getWindowSize returns -1, die("getWindowSize").
InitEditorFails ==
    /\ pc = "init"
    /\ Exit(1)
    /\ UNCHANGED <<E, prompt, buf, saved, last_match, direction, quit_times>>
    /\ UNCHANGED <<disk, atexit_hook, stdin, keypress, now>>

\* editorReadKey: read fails with an error other than EAGAIN, die("read").
ReadFails ==
    /\ pc \in {"key", "prompt_key"}
    /\ Exit(1)
    /\ UNCHANGED <<E, prompt, buf, saved, last_match, direction, quit_times>>
    /\ UNCHANGED <<disk, atexit_hook, stdin, keypress, now>>

NextProcess ==
    \/ TcgetattrFails
    \/ EnableRawMode
    \/ InitEditorOk
    \/ InitEditorFails
    \/ StartEmpty
    \/ StartOpen
    \/ StartOpenFails
    \/ Refresh
    \/ KeyDispatch(AllKeys, MaxProcessSize)
    \/ KeyQuitWarn
    \/ KeyQuitExit
    \/ ReadFails

SpecProcess == InitProcess /\ [][NextProcess]_vars

(* ------------------ a terminal of two rows: screenrows = 0 ------------ *)

\* initEditor leaves screenrows = ws_row - 2 = 0 on a terminal of two rows.
InitTiny == InitWith({<<0, 1>>})

TinyKeys == NavKeys \cup EditKeys \cup TypedKeys

\* PageUp and Enter can raise cy without end there; cy is followed up to
\* MaxSize + 1.
KeyDispatchTiny ==
    /\ KeyDispatch(TinyKeys, MaxSize)
    /\ E'.cy <= MaxSize + 1

\* A key whose handling is undefined behaviour: nothing is known of what follows.
KeyUndefined ==
    /\ pc = "key"
    /\ \E c \in TinyKeys : Undefined(E, c)
    /\ pc' = "undefined"
    /\ UNCHANGED <<E, prompt, buf, saved, last_match, direction, quit_times, exit_status>>
    /\ UNCHANGED env

NextTiny ==
    \/ StartEmpty
    \/ StartOpen
    \/ Refresh
    \/ KeyDispatchTiny
    \/ KeyUndefined

SpecTiny == InitTiny /\ [][NextTiny]_vars

(* ------------------------------ properties ---------------------------- *)

\* The process waits for a key right after a scroll recompute.
AfterScroll == pc \in {"key", "prompt_key"}

\* The process has just dispatched a key of the main loop.
AfterDispatch == pc = "refresh"

\* C1. Scroll containment: on a screen of at least one row and one column,
\* after any sequence of keys (a find match, which sets rowoff to numrows,
\* included) followed by one scroll recompute, 0 <= cy - rowoff < screenrows
\* and 0 <= rx - coloff < screencols.
C1_ScrollContainment ==
    (AfterScroll /\ E.screenrows >= 1 /\ E.screencols >= 1) =>
        /\ 0 <= E.cy - E.rowoff /\ E.cy - E.rowoff < E.screenrows
        /\ 0 <= E.rx - E.coloff /\ E.rx - E.coloff < E.screencols

\* A find match on a row below the first has set rowoff to numrows and the
\* scroll recompute has brought it back to the cursor's row.
C1_Witness ==
    /\ pc = "prompt_key" /\ prompt = "find"
    /\ last_match >= 1 /\ E.cy = last_match
    /\ E.rowoff > 0 /\ E.rowoff <= E.cy

\* The cursor is on a row or on the virtual row past the last one, and inside
\* its row.
CursorValid(e) ==
    /\ 0 <= e.cy /\ e.cy <= e.numrows
    /\ 0 <= e.cx
    /\ e.cy < e.numrows => e.cx <= RowAt(e, e.cy).size
    /\ e.cy = e.numrows => e.cx = 0

\* C2. Cursor validity: after every dispatched keypress 0 <= cy <= numrows and
\* 0 <= cx <= length of row cy, with cx = 0 whenever cy = numrows.
C2_CursorValidity == AfterDispatch => CursorValid(E)

(* ---- C3 ---- *)

\* The render form the specification describes: a tab that starts at render
\* column k becomes 8 - (k mod 8) spaces, any other byte is copied.
RECURSIVE TabExpand(_, _)
TabExpand(chars, k) ==
    IF chars = <<>> THEN <<>>
    ELSE LET out == IF Head(chars) = TAB
                    THEN [i \in 1..(EDITOR_TAB_STOP - (k % EDITOR_TAB_STOP)) |-> SPACE]
                    ELSE <<Head(chars)>>
         IN  out \o TabExpand(Tail(chars), k + Len(out))

RenderConsistent(row) ==
    /\ row.size = Len(row.chars)
    /\ row.render = TabExpand(row.chars, 0)
    /\ row.rsize = Len(row.render)
    /\ row.rsize = editorRowCxToRx(row, row.size)

\* C3. Render consistency: after every buffer operation every row's render
\* equals its chars with each tab that starts at render column k replaced by
\* 8 - (k mod 8) spaces and every other byte copied, and the row's rendered
\* size equals cxToRx(row, row size).
C3_RenderConsistency ==
    /\ Len(E.row) = E.numrows
    /\ \A y \in 0..(E.numrows - 1) : RenderConsistent(RowAt(E, y))

\* Enter has cut a row before a tab that did not start at a tab stop: the row
\* after the cursor's holds bytes ahead of a tab.
C3_Witness ==
    /\ AfterDispatch /\ E.modified = 1
    /\ E.cy >= 1 /\ E.cx = 0 /\ E.cy < E.numrows
    /\ RowAt(E, E.cy).chars = <<TAB>>
    /\ RowAt(E, E.cy - 1).chars = <<LETTER_A>>

(* ---- C4 ---- *)

\* C4. For every screen row that shows an existing buffer row, the bytes
\* emitted are the bytes of its render form at indices
\* [coloff, min(rendered size, coloff + screencols)), tabs or not.
C4_VisibleRange ==
    AfterScroll =>
        \A y \in 0..(E.screenrows - 1) :
            y + E.rowoff < E.numrows =>
                LET row == RowAt(E, y + E.rowoff)
                IN  editorDrawRows(E)[y].bytes =
                        SubSeq(row.render, E.coloff + 1,
                               Min(row.rsize, E.coloff + E.screencols))

(* ---- C5 ---- *)

\* Keys that are no bound command and no navigation key: a control byte, a
\* tab, a letter, and a byte above 127 as an unsigned and as a signed char.
CTRL_A == CTRL_KEY(LETTER_A)
ByteKeys == {CTRL_A, TAB, LETTER_A, HighByte, HighByte - 256}

Unbound(c) == c \notin (NavKeys \cup EditKeys \cup CommandKeys)

SameBuffer(e1, e2) ==
    e1.row = e2.row /\ e1.numrows = e2.numrows /\ e1.modified = e2.modified

\* C5, as claimed: a key that is a control byte or a byte >= 128 and is not a
\* bound command leaves the rows, numrows and the modified flag unchanged.
C5_Original ==
    pc = "key" =>
        \A c \in ByteKeys :
            (iscntrl(c) \/ ByteOf(c) >= 128) => SameBuffer(DispatchKey(E, c), E)

\* The row that takes the byte: row cy, or a new empty row on the virtual row.
InsertedInto(e) ==
    IF e.cy = e.numrows THEN <<>> ELSE RowAt(e, e.cy).chars

\* C5, amended: every key that is no bound command and no navigation key,
\* control bytes and bytes >= 128 included, is inserted as one byte at the
\* cursor: row cy (a new empty row on the virtual row) gains the byte at cx,
\* cx grows by one, cy stays, modified is set; the other rows are unchanged.
C5_InsertsEveryUnboundKey ==
    (pc = "key" /\ CursorValid(E)) =>
        \A c \in ByteKeys :
            LET e2 == DispatchKey(E, c)
                old == InsertedInto(E)
            IN  /\ Unbound(c)
                /\ e2.numrows = E.numrows + (IF E.cy = E.numrows THEN 1 ELSE 0)
                /\ RowAt(e2, E.cy).chars =
                       SubSeq(old, 1, E.cx) \o <<ByteOf(c)>> \o SubSeq(old, E.cx + 1, Len(old))
                /\ \A y \in 0..(E.numrows - 1) : y # E.cy => RowAt(e2, y) = RowAt(E, y)
                /\ e2.cx = E.cx + 1 /\ e2.cy = E.cy
                /\ e2.modified = 1

\* A control byte and a byte above 127 have been typed into the text.
C5_Witness ==
    /\ AfterDispatch /\ E.cy < E.numrows /\ E.cx = 2
    /\ RowAt(E, E.cy).chars = <<CTRL_A, HighByte>>

\* The key dispatch with every such key typed.
NextBytes ==
    \/ StartEmpty
    \/ Refresh
    \/ KeyDispatch(NavKeys \cup EditKeys \cup ByteKeys, MaxSize)

SpecBytes == Init /\ [][NextBytes]_vars

(* ---- C6 ---- *)

Chars(e) == [y \in 1..e.numrows |-> e.row[y].chars]

RemoveAt(q, i) == SubSeq(q, 1, i - 1) \o SubSeq(q, i + 1, Len(q))

\* Backspace with cx > 0: the byte at index cx - 1 of row cy goes, cx drops
\* by one, the row count stays.
DeletesPrevByte(e, e2) ==
    /\ e2.numrows = e.numrows
    /\ Chars(e2) = [Chars(e) EXCEPT ![e.cy + 1] = RemoveAt(@, e.cx)]
    /\ e2.cx = e.cx - 1 /\ e2.cy = e.cy

\* Backspace at column 0: row cy is appended to row cy - 1 and deleted, the
\* cursor moves to the junction.
JoinsRows(e, e2) ==
    /\ e2.numrows = e.numrows - 1
    /\ e2.cy = e.cy - 1
    /\ e2.cx = RowAt(e, e.cy - 1).size
    /\ Chars(e2) = SubSeq(Chars(e), 1, e.cy - 1)
                       \o <<RowAt(e, e.cy - 1).chars \o RowAt(e, e.cy).chars>>
                       \o SubSeq(Chars(e), e.cy + 2, e.numrows)

NothingChanges(e, e2) == e2 = e

\* C6, as claimed: Backspace and Ctrl-H do nothing at (0,0), delete the
\* previous byte when cx > 0, and join row cy onto row cy - 1 for every cursor
\* with cx = 0 and cy > 0.
C6_Original ==
    pc = "key" =>
        \A c \in {BACKSPACE, CTRL_H} :
            LET e2 == DispatchKey(E, c)
            IN  /\ (E.cx = 0 /\ E.cy = 0) => NothingChanges(E, e2)
                /\ E.cx > 0 => DeletesPrevByte(E, e2)
                /\ (E.cx = 0 /\ E.cy > 0) => JoinsRows(E, e2)

\* C6, amended: Backspace and Ctrl-H do nothing at (0,0) and nothing on the
\* virtual row (cy = numrows), delete the previous byte when cx > 0, and join
\* row cy onto row cy - 1 for every cursor with cx = 0 and 0 < cy < numrows.
C6_Backspace ==
    pc = "key" =>
        \A c \in {BACKSPACE, CTRL_H} :
            LET e2 == DispatchKey(E, c)
            IN  /\ (E.cx = 0 /\ E.cy = 0) => NothingChanges(E, e2)
                /\ E.cy = E.numrows => NothingChanges(E, e2)
                /\ E.cx > 0 => DeletesPrevByte(E, e2)
                /\ (E.cx = 0 /\ E.cy > 0 /\ E.cy < E.numrows) => JoinsRows(E, e2)

\* Backspace has joined two rows that both held bytes: the cursor is at the
\* junction inside the joined row.
C6_Witness ==
    /\ pc = "key" /\ E.cx = 0 /\ E.cy = 1 /\ E.numrows = 2
    /\ RowAt(E, 0).size > 0 /\ RowAt(E, 1).size > 0
    /\ DispatchKey(E, BACKSPACE).numrows = 1
    /\ DispatchKey(E, BACKSPACE).cx = RowAt(E, 0).size

(* ---- C7 ---- *)

\* C7. Enter at (cy, cx) on a real row replaces row cy by two rows, bytes
\* [0, cx) and bytes [cx, length), leaves every other row unchanged and in
\* order, adds exactly one to numrows and puts the cursor at (cy + 1, 0).
C7_EnterSplits ==
    (pc = "key" /\ E.cy < E.numrows) =>
        LET e2 == DispatchKey(E, CR)
            row == RowAt(E, E.cy)
        IN  /\ e2.numrows = E.numrows + 1
            /\ Len(e2.row) = e2.numrows
            /\ RowAt(e2, E.cy).chars = SubSeq(row.chars, 1, E.cx)
            /\ RowAt(e2, E.cy + 1).chars = SubSeq(row.chars, E.cx + 1, row.size)
            /\ \A y \in 0..(E.numrows - 1) :
                   /\ y < E.cy => RowAt(e2, y) = RowAt(E, y)
                   /\ y > E.cy => RowAt(e2, y + 1) = RowAt(E, y)
            /\ e2.cy = E.cy + 1 /\ e2.cx = 0

\* Enter has split a row between two of its bytes.
C7_Witness ==
    /\ AfterDispatch /\ E.cx = 0 /\ E.cy = 1 /\ E.numrows = 2
    /\ RowAt(E, 0).chars = <<LETTER_A>> /\ RowAt(E, 1).chars = <<TAB>>

(* ---- C8 ---- *)

\* C8. Split/merge inverse: on every real row and for every cx in
\* [0, row length], Enter and then Backspace restore the row contents, the row
\* count and the cursor.
C8_SplitMergeInverse ==
    (pc = "key" /\ E.cy < E.numrows) =>
        LET e2 == DispatchKey(DispatchKey(E, CR), BACKSPACE)
        IN  /\ Chars(e2) = Chars(E)
            /\ e2.numrows = E.numrows
            /\ e2.cx = E.cx /\ e2.cy = E.cy

\* The cursor is between two bytes of a row with a tab, below another row:
\* Enter there splits the row and Backspace joins the halves.
C8_Witness ==
    /\ pc = "key" /\ E.cy = 1 /\ E.cx = 1
    /\ RowAt(E, 1).chars = <<TAB, LETTER_A>>
    /\ DispatchKey(E, CR).numrows = 3
    /\ DispatchKey(DispatchKey(E, CR), BACKSPACE).numrows = 2

(* ------------------- the row functions on their own ------------------- *)

\* Rows of tabs, letters and spaces.
RowBytes == {TAB, LETTER_A, SPACE}

\* One row, built by editorInsertRow from any bytes, as editorOpen leaves it.
InitRow ==
    /\ E \in {[editorInsertRow(initEditor(1, 1), 0, s) EXCEPT !.modified = 0] :
                 s \in SeqsUpTo(RowBytes, MaxRowLen)}
    /\ pc = "rows"
    /\ prompt = "none"
    /\ buf = <<>>
    /\ saved = NoSaved
    /\ last_match = -1
    /\ direction = 1
    /\ quit_times = EDITOR_QUIT_TIMES
    /\ exit_status = -1
    /\ disk = NoFiles
    /\ term = "raw"
    /\ atexit_hook = TRUE
    /\ stdin = <<>> /\ keypress = NUL /\ now = 0

Unrelated == <<pc, prompt, buf, saved, last_match, direction, quit_times, exit_status>>

\* editorRowInsertChar(row, at, c) for any index, in range or not.
RowInsertChar ==
    /\ RowAt(E, 0).size < MaxRowLen
    /\ \E at \in -1..(RowAt(E, 0).size + 1), c \in RowBytes :
           E' = editorRowInsertChar(E, 0, at, c)
    /\ UNCHANGED Unrelated
    /\ UNCHANGED env

\* editorRowDelChar(row, at) for any index, in range or not.
RowDelChar ==
    /\ \E at \in -1..(RowAt(E, 0).size + 1) : E' = editorRowDelChar(E, 0, at)
    /\ UNCHANGED Unrelated
    /\ UNCHANGED env

\* cx = editorRowRxToCx(row, rx), as the search does, then
\* rx = editorRowCxToRx(row, cx), as the scroll does.
RowTranslate ==
    /\ \E rx \in 0..(RowAt(E, 0).rsize + 1) :
           LET cx == editorRowRxToCx(RowAt(E, 0), rx)
           IN  E' = [E EXCEPT !.cx = cx, !.rx = editorRowCxToRx(RowAt(E, 0), cx)]
    /\ UNCHANGED Unrelated
    /\ UNCHANGED env

NextRow ==
    \/ RowInsertChar
    \/ RowDelChar
    \/ RowTranslate

SpecRow == InitRow /\ [][NextRow]_vars

(* ---- C9 ---- *)

SameRow(r1, r2) ==
    /\ r1.chars = r2.chars /\ r1.size = r2.size
    /\ r1.render = r2.render /\ r1.rsize = r2.rsize

\* C9. Insert/delete symmetry: for every row of length n, byte b and index i
\* in [0, n], insertChar(row, i, b) then deleteChar(row, i) gives back the
\* row's chars, size and render; an insert index outside [0, n] is taken as n
\* and a delete index outside [0, size) changes nothing.
C9_InsertDeleteSymmetry ==
    LET row == RowAt(E, 0)
        n == row.size
    IN  \A b \in RowBytes :
            /\ \A i \in 0..n :
                   LET e1 == editorRowInsertChar(E, 0, i, b)
                   IN  /\ RowAt(e1, 0).size = n + 1
                       /\ RowAt(e1, 0).chars[i + 1] = b
                       /\ SameRow(RowAt(editorRowDelChar(e1, 0, i), 0), row)
            /\ \A i \in {-2, -1, n + 1, n + 2} :
                   /\ RowAt(editorRowInsertChar(E, 0, i, b), 0)
                          = RowAt(editorRowInsertChar(E, 0, n, b), 0)
                   /\ (i < 0 \/ i >= n) => RowAt(editorRowDelChar(E, 0, i), 0) = row
            /\ RowAt(editorRowDelChar(E, 0, n), 0) = row

\* A byte has gone into a row ahead of a tab, which moved the tab's render
\* columns, and the row is full: deletions follow.
C9_Witness ==
    /\ pc = "rows" /\ E.modified = 1
    /\ RowAt(E, 0).chars = <<LETTER_A, TAB, SPACE>>
    /\ RowAt(E, 0).rsize = EDITOR_TAB_STOP + 1

(* ---- C10 ---- *)

\* C10. Index translation round trip: rxToCx(row, cxToRx(row, cx)) = cx for
\* every cx in [0, size]; for every rx in [0, rendered size),
\* cxToRx(row, rxToCx(row, rx)) is the first render column of the cell that
\* covers rx; on a row without tabs cxToRx(row, cx) = cx.
C10_IndexRoundTrip ==
    LET row == RowAt(E, 0)
    IN  /\ \A cx \in 0..row.size :
               editorRowRxToCx(row, editorRowCxToRx(row, cx)) = cx
        /\ \A rx \in 0..(row.rsize - 1) :
               LET cx == editorRowRxToCx(row, rx)
               IN  /\ cx < row.size
                   /\ editorRowCxToRx(row, cx) <= rx
                   /\ rx < editorRowCxToRx(row, cx + 1)
        /\ (\A j \in 1..row.size : row.chars[j] # TAB) =>
               \A cx \in 0..row.size : editorRowCxToRx(row, cx) = cx

\* A render column inside the second tab of a row has been translated to the
\* tab's index and back to the tab's first column.
C10_Witness ==
    /\ pc = "rows"
    /\ RowAt(E, 0).chars = <<LETTER_A, TAB, TAB>>
    /\ E.cx = 2 /\ E.rx = EDITOR_TAB_STOP

(* ---- C11 ---- *)

\* The buffer that loading the serialized buffer of e into an empty editor gives.
Reloaded(e) ==
    editorOpen(initEditor(e.screenrows, e.screencols), FileName, editorRowsToString(e))

\* C11. Save/load round trip: for every buffer reached by keypresses from an
\* empty buffer or from a loaded file, serializing the buffer and loading the
\* serialized bytes into an empty buffer gives the same number of rows with
\* the same bytes in every row.
C11_SaveLoadRoundTrip ==
    pc \in {"refresh", "key"} =>
        /\ Reloaded(E).numrows = E.numrows
        /\ Chars(Reloaded(E)) = Chars(E)

(* ---- C12 ---- *)

\* The lines of a byte stream whose lines end with LF, with CR LF or with a
\* CR alone, each without its line end.
RECURSIVE SplitLines(_)
SplitLines(bytes) ==
    IF bytes = <<>> THEN <<>>
    ELSE LET ends == {k \in 1..Len(bytes) : bytes[k] \in {CR, LF}}
         IN  IF ends = {} THEN <<bytes>>
             ELSE LET k == CHOOSE x \in ends : \A m \in ends : x <= m
                      n == IF bytes[k] = CR /\ k < Len(bytes) /\ bytes[k + 1] = LF
                           THEN k + 1 ELSE k
                  IN  <<SubSeq(bytes, 1, k - 1)>>
                          \o SplitLines(SubSeq(bytes, n + 1, Len(bytes)))

\* C12. Loading a byte stream whose lines end with LF, CR LF or a CR alone
\* gives one row per line, each row holding the line's bytes without its line
\* end; k lines separated by CR alone load as k rows.
C12_LoadLines ==
    [][StartOpen => Chars(E') = SplitLines(disk[FileName])]_vars

(* ---- C13 ---- *)

\* Every line followed by one LF, the last one included.
RECURSIVE FlattenLines(_)
FlattenLines(lines) ==
    IF lines = <<>> THEN <<>>
    ELSE Head(lines) \o <<LF>> \o FlattenLines(Tail(lines))

\* The rows, the cursor and the modified flag of e2 are those of e.
SameText(e, e2) ==
    /\ e2.row = e.row /\ e2.numrows = e.numrows
    /\ e2.cx = e.cx /\ e2.cy = e.cy
    /\ e2.modified = e.modified

\* C13. Save with a filename set: when open, truncate and write all succeed
\* the file holds every row's chars each followed by one newline (the last
\* row's too) and modified becomes false; when open, truncate or write fails,
\* the rows, the cursor and the modified flag are as before the save, a status
\* message is set and the editor goes on reading keys.
C13_Save ==
    [][/\ KeySaveWith("ok") =>
              /\ disk'[E.filename] = FlattenLines(Chars(E))
              /\ E'.modified = 0
              /\ E'.row = E.row /\ E'.numrows = E.numrows
       /\ \A outcome \in SaveOutcomes \ {"ok"} :
              KeySaveWith(outcome) =>
                  /\ SameText(E, E')
                  /\ E'.statusmsg.text = "Can't save"
                  /\ pc' = "refresh" /\ exit_status' = -1]_vars

\* A save has written an edited buffer of two rows over a longer file.
C13_Witness ==
    /\ pc = "refresh"
    /\ E.statusmsg.text = "bytes written" /\ E.modified = 0
    /\ E.numrows = 2
    /\ E.filename \in DOMAIN disk
    /\ disk[E.filename] = FlattenLines(Chars(E))
    /\ Len(disk[E.filename]) < 5

(* ---- C14 ---- *)

\* No file is opened or written, the filename stays unset, the rows and the
\* modified flag stay.
NothingSaved ==
    /\ disk' = disk
    /\ E'.filename = NULL
    /\ E'.row = E.row /\ E'.numrows = E.numrows
    /\ E'.modified = E.modified

\* C14. Save with no filename set, the Save-as prompt ended by Escape after
\* any typed keys: from the save command to the Escape no file is opened or
\* written, the filename stays unset, the rows and the modified flag are
\* unchanged, and the status message is the one of the aborted operation.
C14_SaveAsAborted ==
    [][/\ prompt' = "save" => NothingSaved
       /\ PromptEndSaveAbort =>
              /\ NothingSaved
              /\ E'.statusmsg.text = "Operation aborted"
              /\ pc' = "refresh"]_vars

\* A Save-as prompt on a modified buffer without a name has been ended by
\* Escape.
C14_Witness ==
    /\ pc = "refresh" /\ prompt = "none"
    /\ E.statusmsg.text = "Operation aborted"
    /\ E.modified = 1 /\ E.numrows >= 1
    /\ E.filename = NULL
    /\ disk = NoFiles

(* ---- C15 ---- *)

\* Ctrl-Q is pressed in the main loop.
QuitPress == KeyQuitWarn \/ KeyQuitExit

\* C15. Quit guard: the process ends through the quit command (exit status
\* 0) only in a state where the buffer is unmodified or the confirmation
\* counter is zero; a quit press with the buffer modified and the counter
\* above zero decrements the counter by exactly one, sets the warning message,
\* and changes neither the rows, the cursor nor the modified flag.
C15_QuitGuard ==
    [][/\ (exit_status = -1 /\ exit_status' = 0) =>
              (E.modified = 0 \/ quit_times = 0)
       /\ (QuitPress /\ E.modified # 0 /\ quit_times > 0) =>
              /\ quit_times' = quit_times - 1
              /\ E'.statusmsg = Msg("WARNING", <<quit_times>>)
              /\ SameText(E, E')
              /\ pc' = "refresh" /\ exit_status' = -1]_vars

\* The quit command has ended the process on a modified buffer, the counter
\* at zero.
C15_Witness ==
    /\ pc = "exit" /\ exit_status = 0
    /\ E.modified = 1 /\ quit_times = 0
    /\ E.statusmsg = Msg("WARNING", <<1>>)

(* ---- C16 ---- *)

\* C16. Every dispatched keypress other than the quit command resets the
\* quit confirmation counter to its initial value 3: the counter only ever
\* changes by a quit press taking one off or by a reset to 3, so a modified
\* buffer is discarded only at counter zero, after a run of quit presses with
\* no other key between them that started from a full counter.
C16_CounterReset ==
    [][/\ (pc' = "refresh" /\ ~KeyQuitWarn) => quit_times' = EDITOR_QUIT_TIMES
       /\ quit_times' # quit_times =>
              \/ KeyQuitWarn /\ quit_times' = quit_times - 1
              \/ quit_times' = EDITOR_QUIT_TIMES
       /\ (exit_status = -1 /\ exit_status' = 0 /\ E.modified # 0) =>
              quit_times = 0]_vars

\* Two quit presses have been warned about and another key has then put the
\* counter back to 3.
C16_Witness ==
    /\ pc = "refresh" /\ prompt = "none"
    /\ E.modified = 1
    /\ E.statusmsg = Msg("WARNING", <<2>>)
    /\ quit_times = EDITOR_QUIT_TIMES

(* ---- C17 ---- *)

\* The process has ended, or is in the undefined exit from inside exit.
Ended == pc \in {"exit", "undefined"}

\* C17 as stated. Terminal restoration: on every exit path taken after raw
\* mode was entered (user quit, fatal read error, window-size failure,
\* file-open failure) the terminal attributes are back to the snapshot taken
\* at startup when the process ends.
C17_Original == (Ended /\ atexit_hook) => term = "orig"

\* C17, amended. On every exit path taken after raw mode was entered,
\* disableRawMode runs: when its tcsetattr succeeds the terminal attributes
\* are back to the snapshot as the process ends; when it fails the attributes
\* stay and the process is in die, called from inside exit.
C17_RestoredUnlessTcsetattrFails ==
    /\ (pc = "exit" /\ atexit_hook) => term = "orig"
    /\ pc = "undefined" => (atexit_hook /\ exit_status = -1)

\* The file named on the command line did not open and the process has ended
\* with the terminal restored.
C17_Witness ==
    /\ pc = "exit" /\ exit_status = 1 /\ atexit_hook
    /\ E.filename = FileName /\ E.numrows = 0
    /\ term = "orig"

(* ---- C18 ---- *)

\* C18. Startup failures are fatal: if the terminal attribute query fails,
\* or installing the raw-mode attributes fails, or the window size cannot be
\* obtained by either method, the process ends with exit status 1 and never
\* reaches the render/read-key loop.
C18_StartupFatal ==
    [][/\ TcgetattrFails => (pc' = "exit" /\ exit_status' = 1)
       /\ (EnableRawMode /\ term' # "raw") => (pc' = "exit" /\ exit_status' = 1)
       /\ InitEditorFails =>
              (pc' = "undefined" \/ (pc' = "exit" /\ exit_status' = 1))]_vars

(* ---- C19 ---- *)

\* The cursor and the scroll offsets of e.
View(e) == [cx |-> e.cx, cy |-> e.cy, coloff |-> e.coloff, rowoff |-> e.rowoff]

\* The rows, their number and the modified flag stay.
SameBufferFlag(e, e2) ==
    /\ e2.row = e.row /\ e2.numrows = e.numrows
    /\ e2.modified = e.modified

\* C19. A find session ended by Escape, after any typed characters,
\* backspaces and navigation keys and any number of matches, leaves cx, cy,
\* rowoff and coloff equal to their values when the find command was invoked
\* (the values editorFind saved, which no key of the session changes), and
\* leaves the rows, numrows and the modified flag unchanged.
C19_FindCancelRestores ==
    [][/\ KeyFind => (saved' = View(E) /\ SameBufferFlag(E, E'))
       /\ (prompt = "find" /\ prompt' = "find") =>
              (saved' = saved /\ SameBufferFlag(E, E'))
       /\ PromptEndFindWith(ESC) =>
              (View(E') = saved /\ SameBufferFlag(E, E'))]_vars

\* A find session whose matches have moved the cursor and the scroll offset
\* away from where the find command was invoked; Escape is read next.
C19_Witness ==
    /\ pc = "prompt_key" /\ prompt = "find"
    /\ last_match >= 1 /\ E.cy = last_match
    /\ saved.cy = 0 /\ saved.rowoff = 0
    /\ E.rowoff > 0
    /\ E.modified = 1

(* ---- C20 ---- *)

\* A find session that has a last match.
InSession == pc = "prompt_key" /\ prompt = "find" /\ last_match # -1

\* q occurs in h at offset k.
OccursAt(h, q, k) == k + Len(q) <= Len(h) /\ SubSeq(h, k + 1, k + Len(q)) = q

Occurrences(h, q) == {k \in 0..Len(h) : OccursAt(h, q, k)}

\* The rows of e whose render contains q.
MatchRows(e, q) ==
    {y \in 0..(e.numrows - 1) : Occurrences(RowAt(e, y).render, q) # {}}

\* The steps from row r forward to row y, and backward, in the cycle of n rows:
\* 1 for the next row, n for r itself.
StepsAhead(r, y, n) == ((y - r - 1) % n) + 1
StepsBack(r, y, n) == ((r - y - 1) % n) + 1

NearestAfter(e, q, r) ==
    CHOOSE y \in MatchRows(e, q) :
        \A z \in MatchRows(e, q) : StepsAhead(r, y, e.numrows) <= StepsAhead(r, z, e.numrows)

NearestBefore(e, q, r) ==
    CHOOSE y \in MatchRows(e, q) :
        \A z \in MatchRows(e, q) : StepsBack(r, y, e.numrows) <= StepsBack(r, z, e.numrows)

\* cx is the index of the byte of row whose rendering holds the render column
\* where q first occurs.
LandsOnFirst(row, q, cx) ==
    LET occ == Occurrences(row.render, q)
        m == CHOOSE k \in occ : \A j \in occ : k <= j
    IN  /\ cx \in 0..row.size
        /\ editorRowCxToRx(row, cx) <= m
        /\ cx < row.size => m < editorRowCxToRx(row, cx + 1)

\* C20. Search navigation with wraparound: in a find session with a fixed
\* query and a last match on row r, Right/Down moves the cursor to the nearest
\* row after r in cyclic order (row numrows wraps to 0) whose render contains
\* the query, Left/Up to the nearest such row before r in cyclic order (row -1
\* wraps to the last row), r itself when it is the only matching row; the
\* cursor lands on that row at the byte index of the first occurrence of the
\* query in it.
C20_SearchNavigation ==
    InSession =>
        \A key \in {ARROW_RIGHT, ARROW_DOWN, ARROW_LEFT, ARROW_UP} :
            LET f == editorFindCallback([E |-> E, last_match |-> last_match,
                                         direction |-> direction], buf, key)
                y == IF key \in {ARROW_RIGHT, ARROW_DOWN}
                     THEN NearestAfter(E, buf, last_match)
                     ELSE NearestBefore(E, buf, last_match)
            IN  /\ f.E.cy = y
                /\ f.last_match = y
                /\ LandsOnFirst(RowAt(E, y), buf, f.E.cx)

\* The search for "a" in rows "a", TAB "a", "", "a a" has gone backward from
\* row 0 round to the last row; forward from there wraps to row 0, backward
\* skips the empty row and lands behind the tab of row 1.
C20_Witness ==
    /\ InSession /\ buf = <<LETTER_A>>
    /\ E.numrows = 4 /\ last_match = 3 /\ direction = -1
    /\ E.cy = 3 /\ E.cx = 0

(* ---- C23 ---- *)

\* The length of row y of e, 0 on the virtual row.
RowLen(e, y) == IF y < e.numrows THEN RowAt(e, y).size ELSE 0

\* The cursor of e2 is where the cursor of e is.
SameCursor(e, e2) == e2.cx = e.cx /\ e2.cy = e.cy

\* Left at column 0: to the end of row cy - 1, or nowhere from row 0.
LeftWraps(e) ==
    LET l == DispatchKey(e, ARROW_LEFT)
    IN  e.cx = 0 =>
            IF e.cy > 0
            THEN l.cy = e.cy - 1 /\ l.cx = RowLen(e, e.cy - 1)
            ELSE SameCursor(e, l)

\* C23 as stated. Horizontal arrow wrap: Left at column 0 moves the cursor to
\* the end of row cy-1 when cy > 0 and leaves it when cy == 0; Right at the
\* end of row cy moves the cursor to (cy+1, 0) when row cy+1 exists and
\* leaves it when row cy is the last row of the buffer.
C23_Original ==
    pc = "key" =>
        LET r == DispatchKey(E, ARROW_RIGHT)
        IN  /\ LeftWraps(E)
            /\ (E.cy < E.numrows /\ E.cx = RowLen(E, E.cy)) =>
                   IF E.cy + 1 < E.numrows
                   THEN r.cy = E.cy + 1 /\ r.cx = 0
                   ELSE SameCursor(E, r)

\* C23, amended. Left at column 0 moves the cursor to the end of row cy-1
\* when cy > 0 and leaves it when cy == 0; Right at the end of any row, the
\* last one included, moves the cursor to (cy+1, 0), which past the last row
\* is the virtual row; Right on the virtual row leaves the cursor.
C23_ArrowWrap ==
    pc = "key" =>
        LET r == DispatchKey(E, ARROW_RIGHT)
        IN  /\ LeftWraps(E)
            /\ (E.cy < E.numrows /\ E.cx = RowLen(E, E.cy)) =>
                   (r.cy = E.cy + 1 /\ r.cx = 0)
            /\ E.cy = E.numrows => SameCursor(E, r)

\* The cursor is at the end of the last of two rows, a row with bytes: Right
\* takes it to the virtual row, Left from there back to this place.
C23_Witness ==
    /\ pc = "key" /\ E.numrows = 2 /\ E.cy = 1
    /\ RowLen(E, 1) > 0 /\ E.cx = RowLen(E, 1)
    /\ DispatchKey(E, ARROW_RIGHT).cy = 2
    /\ DispatchKey(DispatchKey(E, ARROW_RIGHT), ARROW_LEFT).cx = E.cx

(* ---- C24 ---- *)

\* C24. Delete-forward pressed with the cursor at (cy, cx) leaves the cursor
\* at (cy, cx) in every case: it removes the byte at index cx when cx is below
\* the row length, joins row cy+1 onto row cy when cx equals the row length
\* and row cy+1 exists, and changes neither the rows nor the cursor when the
\* cursor is at the end of the last row or on the virtual row past it.
C24_DeleteForward ==
    pc = "key" =>
        LET d == DispatchKey(E, DEL_KEY)
        IN  /\ SameCursor(E, d)
            /\ IF E.cy < E.numrows /\ E.cx < RowLen(E, E.cy)
               THEN /\ d.numrows = E.numrows
                    /\ Chars(d) = [Chars(E) EXCEPT ![E.cy + 1] = RemoveAt(@, E.cx + 1)]
               ELSE IF E.cy + 1 < E.numrows
               THEN /\ d.numrows = E.numrows - 1
                    /\ Chars(d) = [y \in 1..(E.numrows - 1) |->
                                      IF y < E.cy + 1 THEN Chars(E)[y]
                                      ELSE IF y = E.cy + 1
                                      THEN Chars(E)[y] \o Chars(E)[y + 1]
                                      ELSE Chars(E)[y + 1]]
               ELSE d.numrows = E.numrows /\ Chars(d) = Chars(E)

(* ---- C25 ---- *)

Max(a, b) == IF a > b THEN a ELSE b

\* The least length of the rows of S, the virtual row counting 0.
MinLen(e, S) ==
    LET lens == {RowLen(e, y) : y \in S}
    IN  CHOOSE n \in lens : \A m \in lens : n <= m

\* Where PageDown and PageUp leave cy.
PageDownRow(e) == Min(e.numrows, e.rowoff + 2 * e.screenrows - 1)
PageUpRow(e) == Max(0, e.rowoff - e.screenrows)

\* C25 as stated. Paging: PageDown leaves cy == min(numrows, rowoff +
\* 2*screenrows - 1) and PageUp leaves cy == max(0, rowoff - screenrows),
\* rowoff being the row offset of the last rendered frame; in both cases cx
\* afterwards is min(old cx, length of the new row), 0 on the virtual row.
C25_Original ==
    (pc = "key" /\ E.screenrows >= 1) =>
        LET d == DispatchKey(E, PAGE_DOWN)
            u == DispatchKey(E, PAGE_UP)
        IN  /\ d.cy = PageDownRow(E) /\ d.cx = Min(E.cx, RowLen(E, d.cy))
            /\ u.cy = PageUpRow(E) /\ u.cx = Min(E.cx, RowLen(E, u.cy))

\* The rows the cursor steps onto: PageDown jumps to the last row of the
\* frame (or to numrows) and steps down from there, PageUp jumps to the first
\* row of the frame and steps up; a step that cannot move stays on its row.
PageDownSteps(e) ==
    LET start == Min(e.numrows, e.rowoff + e.screenrows - 1)
    IN  IF start = PageDownRow(e) THEN {start} ELSE (start + 1)..PageDownRow(e)

PageUpSteps(e) ==
    IF e.rowoff = PageUpRow(e) THEN {e.rowoff} ELSE PageUpRow(e)..(e.rowoff - 1)

\* C25, amended. PageDown leaves cy == min(numrows, rowoff + 2*screenrows - 1)
\* and PageUp leaves cy == max(0, rowoff - screenrows); cx afterwards is the
\* least of the old cx and the lengths of all the rows the cursor stepped
\* onto on its way, the new row being the last of them.
C25_Paging ==
    (pc = "key" /\ E.screenrows >= 1) =>
        LET d == DispatchKey(E, PAGE_DOWN)
            u == DispatchKey(E, PAGE_UP)
        IN  /\ d.cy = PageDownRow(E)
            /\ d.cx = Min(E.cx, MinLen(E, PageDownSteps(E)))
            /\ u.cy = PageUpRow(E)
            /\ u.cx = Min(E.cx, MinLen(E, PageUpSteps(E)))

\* On a screen of two rows the cursor is past the "a" of row 0 of "a", "",
\* "", "a": PageDown steps over the empty rows onto the last row and arrives
\* there at column 0.
C25_Witness ==
    /\ pc = "key" /\ E.screenrows = 2 /\ E.numrows = 4
    /\ E.cy = 0 /\ E.cx = 1 /\ E.rowoff = 0
    /\ RowLen(E, 3) = 1
    /\ DispatchKey(E, PAGE_DOWN).cy = 3
    /\ DispatchKey(E, PAGE_DOWN).cx = 0

(* ---- C26 ---- *)

\* The search prompt has read a key or is about to.
InFind == pc = "prompt_key" /\ prompt = "find"

Arrows == {ARROW_RIGHT, ARROW_DOWN, ARROW_LEFT, ARROW_UP}

\* The search state as editorPrompt hands it to the callback.
SearchState == [E |-> E, last_match |-> last_match, direction |-> direction]

\* One call of the callback probes at most numrows rows, none on an empty
\* buffer; when no row's render holds the query it leaves cx, cy, rowoff and
\* coloff, and it leaves the last match as after(key) says.
ProbesAndNoMatch(after(_)) ==
    InFind =>
        \A c \in FindKeys :
            LET q == PromptBuf(c)
                f == editorFindCallback(SearchState, q, c)
                probes == CallbackProbes(SearchState, q, c)
            IN  /\ probes <= E.numrows
                /\ E.numrows = 0 => probes = 0
                /\ (c \notin {CR, ESC} /\ MatchRows(E, q) = {}) =>
                       /\ View(f.E) = View(E)
                       /\ f.last_match = after(c)

\* The last match stays.
LastMatchKept(c) == last_match

\* The last match stays on an arrow key; any other key has set it to none.
LastMatchKeptOnArrows(c) == IF c \in Arrows THEN last_match ELSE -1

\* C26 as stated. Each invocation of the search callback terminates after
\* probing at most numrows rows (zero probes on an empty buffer); when no
\* row's render contains the query the invocation leaves cx, cy, rowoff,
\* coloff and the last-match row unchanged.
C26_Original == ProbesAndNoMatch(LastMatchKept)

\* C26, amended. Each invocation of the search callback probes at most
\* numrows rows (none on an empty buffer); when no row's render contains the
\* query it leaves cx, cy, rowoff and coloff unchanged; the last-match row is
\* unchanged when the key is an arrow and is none after any other key.
C26_BoundedProbes == ProbesAndNoMatch(LastMatchKeptOnArrows)

\* The search has a match for "a" on a row below the first; one more letter
\* makes a query that no row holds, and all the rows are probed for it.
C26_Witness ==
    /\ InFind /\ buf = <<LETTER_A>> /\ last_match >= 1
    /\ E.numrows = 4
    /\ MatchRows(E, <<LETTER_A, LETTER_A>>) = {}
    /\ CallbackProbes(SearchState, <<LETTER_A, LETTER_A>>, LETTER_A) = 4
    /\ editorFindCallback(SearchState, <<LETTER_A, LETTER_A>>, LETTER_A).last_match = -1


(* ---- C29 ---- *)

\* The least row of S.
FirstRow(S) == CHOOSE y \in S : \A z \in S : y <= z

\* C29. Outside a find session the last-match row is none and the direction
\* is forward, so every session starts with them, however the one before it
\* ended; and while the last-match row is none, the key that makes the query
\* match puts the cursor and the last match on the first matching row
\* counted from row 0.
C29_NoLeak ==
    /\ prompt # "find" => (last_match = -1 /\ direction = 1)
    /\ (InFind /\ last_match = -1) =>
           \A c \in FindKeys \ {CR, ESC} :
               LET q == PromptBuf(c)
                   f == editorFindCallback(SearchState, q, c)
               IN  MatchRows(E, q) # {} =>
                       /\ f.last_match = FirstRow(MatchRows(E, q))
                       /\ f.E.cy = FirstRow(MatchRows(E, q))
                       /\ f.direction = 1

\* A find session opened with the cursor on the "a" of the row " a", where
\* only an earlier session ended with Enter can have put it; no key has been
\* read yet, and the statics are the initial ones.
C29_Witness ==
    /\ InFind /\ buf = <<>>
    /\ E.numrows = 2 /\ RowAt(E, 0).chars = <<SPACE, LETTER_A>>
    /\ saved.cx = 1 /\ saved.cy = 0
    /\ last_match = -1 /\ direction = 1
    /\ editorFindCallback(SearchState, <<LETTER_A>>, LETTER_A).last_match = 0


(* ---- C28 ---- *)

\* A save that wrote the whole buffer, from Ctrl-S or from the Save-as prompt.
SuccessfulSave == KeySaveWith("ok") \/ PromptEndSaveAsWith("ok")

\* C28. Whenever modified is false the rows are those of the most recent
\* successful load or save, the empty buffer if there has been none: the
\* program starts unmodified and empty; a successful load or save leaves
\* modified false, and the save leaves the rows as they are; every other step
\* that ends with modified false started with modified false and has not
\* changed the rows.
C28_DirtyFlag ==
    /\ [](pc = "open" => (E.modified = 0 /\ E.numrows = 0))
    /\ [][/\ (StartOpen \/ SuccessfulSave) => E'.modified = 0
          /\ SuccessfulSave => Chars(E') = Chars(E)
          /\ (E'.modified = 0 /\ ~StartOpen /\ ~SuccessfulSave) =>
                 (E.modified = 0 /\ Chars(E') = Chars(E))]_vars

\* An unmodified buffer between key dispatches, after a save of rows that
\* are not the rows of any file the program could have loaded.
C28_Witness ==
    /\ pc = "key" /\ E.modified = 0 /\ E.numrows >= 1
    /\ E.filename \in DOMAIN disk
    /\ disk[E.filename] = FlattenLines(Chars(E))
    /\ \A d \in Disks : FileName \in DOMAIN d => SplitLines(d[FileName]) # Chars(E)


(* ---- C27 ---- *)

\* The keys editorReadKey can hand to the prompt: the keys of the editor, a
\* control byte, and a byte above 127 as an unsigned and as a signed char.
PromptInput == AllKeys \cup {CTRL_A, HighByte, HighByte - 256}

RemoveKeys == {DEL_KEY, CTRL_H, BACKSPACE}

\* Non-control bytes below 128.
PrintableByte(c) == c >= 32 /\ c <= 126

\* The prompt protocol for the keys of K.
PromptProtocol(K) ==
    pc = "prompt_key" =>
        \A c \in K : \A ctl \in IscntrlOutcomes(c) :
            LET r == editorPromptKey(buf, c, ctl)
            IN  /\ r.returns # "none" <=> ((c = CR /\ Len(buf) # 0) \/ c = ESC)
                /\ c = ESC => r.returns = "NULL"
                /\ (c = CR /\ Len(buf) # 0) => (r.returns = "buf" /\ r.buf = buf)
                /\ (c = CR /\ Len(buf) = 0) => r.buf = buf
                /\ c \in RemoveKeys =>
                       r.buf = SubSeq(buf, 1, Max(Len(buf) - 1, 0))
                /\ PrintableByte(c) => r.buf = Append(buf, c)
                /\ (c \notin RemoveKeys /\ ~PrintableByte(c)) => r.buf = buf
                /\ r.calls = 1

\* C27. A prompt session ends only on Enter with a non-empty query, which
\* it returns, or on Escape, which returns nothing; Enter on an empty query
\* keeps the prompt open; a printable byte is appended to the query;
\* Backspace, Delete and Ctrl-H remove its last byte; no other key changes
\* it; the callback is invoked once after every key.
C27_PromptProtocol == PromptProtocol(PromptInput)


(* ----------------------- the key decoder on its own ------------------- *)

\* The bytes and timeouts one key press can put on standard input: single
\* bytes, the escape sequences of the terminal, whole, cut short, followed
\* by a timeout, and with a byte that belongs to no sequence.
Digits == {DIGIT_0 + d : d \in 1..8}
Letters == {UPPER_A, UPPER_B, UPPER_C, UPPER_D, UPPER_F, UPPER_H}
KeyBytes ==
    {<<b>> : b \in {LETTER_A, HighByte, LBRACKET, NoByte}}
    \cup {<<ESC>>, <<ESC, NoByte>>, <<ESC, LETTER_A, UPPER_A>>}
    \cup {<<ESC, x>> : x \in {LBRACKET, UPPER_O}}
    \cup {<<ESC, x, NoByte>> : x \in {LBRACKET, UPPER_O}}
    \cup {<<ESC, LBRACKET, l>> : l \in Letters \cup {LETTER_A}}
    \cup {<<ESC, UPPER_O, l>> : l \in {UPPER_H, UPPER_F, UPPER_A}}
    \cup {<<ESC, LBRACKET, d>> : d \in Digits}
    \cup {<<ESC, LBRACKET, d, t>> : d \in Digits, t \in {TILDE, NoByte, LETTER_A}}

RECURSIVE KeysUpTo(_)
KeysUpTo(n) ==
    IF n = 0 THEN {<<>>}
    ELSE KeysUpTo(n - 1) \cup {s \o k : s \in KeysUpTo(n - 1), k \in KeyBytes}

InitKeys ==
    /\ E = initEditor(1, 1)
    /\ pc = "read"
    /\ prompt = "none"
    /\ buf = <<>>
    /\ saved = NoSaved
    /\ last_match = -1
    /\ direction = 1
    /\ quit_times = EDITOR_QUIT_TIMES
    /\ exit_status = -1
    /\ disk = NoFiles
    /\ term = "raw"
    /\ atexit_hook = TRUE
    /\ stdin \in KeysUpTo(MaxKeys)
    /\ keypress = NUL
    /\ now = 0

\* A byte is to come: editorReadKey returns.
Pending == WaitByte(stdin) # <<>>

\* c = editorReadKey(), on a build where char is signed or on one where it
\* is not.
ReadKey ==
    /\ pc = "read"
    /\ Pending
    /\ \E signed \in BOOLEAN :
           /\ keypress' = editorReadKey(stdin, signed).key
           /\ stdin' = editorReadKey(stdin, signed).rest
    /\ UNCHANGED <<E, pc, prompt, buf, saved, last_match, direction, quit_times,
                   exit_status, disk, term, atexit_hook, now>>

NextKeys == ReadKey

SpecKeys == InitKeys /\ [][NextKeys]_vars

(* ---- C21 ---- *)

\* The escape sequences of the key table, without their ESC, and their keys.
KeyTable ==
    {<<<<LBRACKET, UPPER_A>>, ARROW_UP>>, <<<<LBRACKET, UPPER_B>>, ARROW_DOWN>>,
     <<<<LBRACKET, UPPER_C>>, ARROW_RIGHT>>, <<<<LBRACKET, UPPER_D>>, ARROW_LEFT>>,
     <<<<LBRACKET, UPPER_H>>, HOME_KEY>>, <<<<LBRACKET, UPPER_F>>, END_KEY>>,
     <<<<LBRACKET, DIGIT_0 + 1, TILDE>>, HOME_KEY>>,
     <<<<LBRACKET, DIGIT_0 + 3, TILDE>>, DEL_KEY>>,
     <<<<LBRACKET, DIGIT_0 + 4, TILDE>>, END_KEY>>,
     <<<<LBRACKET, DIGIT_0 + 5, TILDE>>, PAGE_UP>>,
     <<<<LBRACKET, DIGIT_0 + 6, TILDE>>, PAGE_DOWN>>,
     <<<<LBRACKET, DIGIT_0 + 7, TILDE>>, HOME_KEY>>,
     <<<<LBRACKET, DIGIT_0 + 8, TILDE>>, END_KEY>>,
     <<<<UPPER_O, UPPER_H>>, HOME_KEY>>, <<<<UPPER_O, UPPER_F>>, END_KEY>>}

\* s starts with p.
StartsWith(s, p) == Len(s) >= Len(p) /\ SubSeq(s, 1, Len(p)) = p

\* The key for the bytes s that follow an ESC: that of the table entry s
\* starts with, a bare ESC when there is none.
TableKey(s) ==
    IF \E t \in KeyTable : StartsWith(s, t[1])
    THEN (CHOOSE t \in KeyTable : StartsWith(s, t[1]))[2]
    ELSE ESC

\* The decoding of the input in, on the builds of Builds (char signed: TRUE).
KeyDecoding(in, Builds) ==
    \A signed \in Builds :
        LET r == editorReadKey(in, signed)
            first == Head(WaitByte(in))
        IN  /\ first # ESC => (r.key = first /\ r.reads = 0)
            /\ first = ESC =>
                   /\ r.key = TableKey(Tail(WaitByte(in)))
                   /\ r.reads >= 1 /\ r.reads <= 3

\* C21. For every input that starts with ESC editorReadKey returns the key
\* of the table for ESC [ A/B/C/D/H/F, ESC [ d ~ with d = 1, 3, 4, 5, 6, 7, 8
\* and ESC O H/F, and a bare ESC for every other or incomplete sequence,
\* after at most three follow-up reads; a first byte other than ESC is
\* returned as itself.
C21_KeyDecoding == (pc = "read" /\ Pending) => KeyDecoding(stdin, BOOLEAN)


(* ------------------------ the clock and the message ------------------- *)

\* A terminal of one column, and one as wide as E.statusmsg.
ClockSizes == {<<1, 1>>, <<1, STATUS_SIZE>>}

InitClock == InitWith(ClockSizes) /\ disk = NoFiles

ClockKeys == {LETTER_A, BACKSPACE, CR}

\* time(NULL) goes up by a second.
Tick ==
    /\ now < MaxTime
    /\ pc # "exit"
    /\ now' = now + 1
    /\ UNCHANGED <<E, pc, prompt, buf, saved, last_match, direction, quit_times,
                   exit_status, disk, term, atexit_hook, stdin, keypress>>

NextClock ==
    \/ StartEmpty
    \/ Refresh
    \/ KeyDispatch(ClockKeys, MaxClockSize)
    \/ KeyQuitWarn
    \/ KeyQuitExit
    \/ KeyFind
    \/ PromptRefresh
    \/ PromptKey(ClockKeys)
    \/ PromptEndFind
    \/ Tick

SpecClock == InitClock /\ [][NextClock]_vars

(* ---- C22 ---- *)

\* The steps that call editorSetStatusMessage.
SetsMessage ==
    \/ StartEmpty \/ StartOpen
    \/ KeyQuitWarn
    \/ KeySave
    \/ PromptRefresh
    \/ PromptEndFind \/ PromptEndSaveAbort \/ PromptEndSaveAs

\* C22. A frame rendered at any moment has in its message bar the current
\* status message, cut to screencols, exactly when the message is not empty
\* and fewer than 5 seconds have passed since the most recent call that set
\* it, and nothing otherwise; each call that sets the message replaces the
\* text and restarts the 5 seconds, and no other step touches either.
C22_MessageExpiry ==
    /\ [](LET bar == editorDrawMessageBar(E, now)
          IN  IF E.statusmsg.text # "" /\ now - E.statusmsg_time < 5
              THEN /\ bar.msg = E.statusmsg
                   /\ bar.len = Min(MsgLen(E.statusmsg), E.screencols)
                   /\ bar.len >= 1
              ELSE bar = NoBar)
    /\ [][/\ SetsMessage => E'.statusmsg_time = now
          /\ ~SetsMessage => /\ E'.statusmsg = E.statusmsg
                             /\ E'.statusmsg_time = E.statusmsg_time]_vars

\* Five seconds after the warning of the quit command was set, with the
\* next frame to be drawn: the bar is empty though the message is not.
C22_Witness ==
    /\ pc = "refresh"
    /\ E.statusmsg.text = "WARNING" /\ E.statusmsg_time >= 1
    /\ now - E.statusmsg_time = 5
    /\ E.screencols = STATUS_SIZE
    /\ editorDrawMessageBar(E, now) = NoBar
    /\ editorDrawMessageBar(E, now - 1).len = 71

====
